---- MODULE Spec2Model ----
(***************************************************************************)
(* State-machine model of the in-browser image editor modal                *)
(* (ImageEditorModal, src/unnamed/part_000): the React state of the        *)
(* component, one action per event handler, and the two effects that run   *)
(* after a render.  A handler reads the state of the render it was created *)
(* in and its state updates are applied together when it returns, so each  *)
(* handler is one atomic step from a state record to a state record.       *)
(*                                                                         *)
(* JavaScript numbers are modelled as exact rationals <<num, den>>         *)
(* (reduced, den > 0); sequences are 1-based, so the code's history[i] is  *)
(* history[i + 1] here while historyIndex keeps the code's 0-based value.  *)
(* An optional field (width?, height?) is <<>> when absent and <<v>> when  *)
(* present.  Text fields are sequences of one-character strings.           *)
(***************************************************************************)
EXTENDS Integers, Sequences, FiniteSets, TLC

\* ------------------------------------------------------------------ bounds
\* Longest history the model lets a push build.
MaxHist == 3
\* Most strokes a snapshot's drawings may hold.
MaxStrokes == 1
\* Most points a freehand stroke may hold.
MaxPoints == 3
\* Longest history in the draw specification: two gestures in a row.
MaxDraw == 3
\* Most strokes in the draw specification.
MaxDrawStrokes == 2
\* Longest history in the rotation specification: four rotations after the
\* baseline.
MaxRotate == 5
\* Longest history in the crop specification.
MaxCrop == 2
\* Longest history in the resize specification.
MaxResize == 2
\* Most text objects in the collection.
MaxTexts == 2
\* Most blur timers pending at once.
MaxTimers == 1
\* Last value of the millisecond clock.
MaxClock == 1
\* Longest history in the text specification.
MaxTextHist == 2
\* Longest history in the preset-crop specification: the baseline and a crop.
MaxPreset == 2
\* Calls of handleSave, and history entries next to them.
MaxSaves == 2
MaxSaveHist == 2
\* The layered-save specification: history entries (the baseline, a rotation
\* and two strokes) and calls of handleSave.
MaxLayerHist == 4
MaxLayerSaves == 1
\* Longest history in the specification of interrupted gestures.
MaxGestureHist == 2

\* --------------------------------------------------------------- rationals
RECURSIVE Gcd(_, _)
Gcd(a, b) == IF b = 0 THEN a ELSE Gcd(b, a % b)

Abs(n) == IF n < 0 THEN -n ELSE n

\* The rational n/d (d # 0), reduced, with a positive denominator.
Rat(n, d) ==
    LET g == Gcd(Abs(n), Abs(d))
        s == IF d < 0 THEN -1 ELSE 1
    IN  <<(s * n) \div g, (s * d) \div g>>

RInt(n) == <<n, 1>>
RAdd(a, b) == Rat(a[1] * b[2] + b[1] * a[2], a[2] * b[2])
RSub(a, b) == Rat(a[1] * b[2] - b[1] * a[2], a[2] * b[2])
RMul(a, b) == Rat(a[1] * b[1], a[2] * b[2])
RDiv(a, b) == Rat(a[1] * b[2], a[2] * b[1])
RLt(a, b) == a[1] * b[2] < b[1] * a[2]
RLe(a, b) == a[1] * b[2] <= b[1] * a[2]
RMin(a, b) == IF RLt(b, a) THEN b ELSE a
RMax(a, b) == IF RLt(a, b) THEN b ELSE a
\* Math.round: the nearest integer, a half rounding up.
MathRound(a) == (2 * a[1] + a[2]) \div (2 * a[2])

\* ------------------------------------------------------------------- text
Digits == <<"0", "1", "2", "3", "4", "5", "6", "7", "8", "9">>
IsDigit(c) == \E i \in 1..10 : Digits[i] = c
DigitVal(c) == (CHOOSE i \in 1..10 : Digits[i] = c) - 1

RECURSIVE NatToString(_)
NatToString(n) ==
    IF n < 10 THEN <<Digits[n + 1]>>
    ELSE NatToString(n \div 10) \o <<Digits[(n % 10) + 1]>>

\* Number.prototype.toString of an integer.
NumToString(n) == IF n < 0 THEN <<"-">> \o NatToString(-n) ELSE NatToString(n)

RECURSIVE LeadingDigits(_)
LeadingDigits(s) ==
    IF s = <<>> \/ ~IsDigit(Head(s)) THEN <<>>
    ELSE <<Head(s)>> \o LeadingDigits(Tail(s))

RECURSIVE DigitsValue(_, _)
DigitsValue(s, acc) ==
    IF s = <<>> THEN acc ELSE DigitsValue(Tail(s), 10 * acc + DigitVal(Head(s)))

RECURSIVE SkipSpaces(_)
SkipSpaces(s) == IF s # <<>> /\ Head(s) = " " THEN SkipSpaces(Tail(s)) ELSE s

\* parseInt(s): <<>> for NaN, else <<n>>.  Leading blanks are skipped, one
\* sign is accepted, then the longest run of digits is read; what follows
\* the digits is ignored.
ParseInt(s) ==
    LET t == SkipSpaces(s)
        neg == t # <<>> /\ Head(t) = "-"
        u == IF t # <<>> /\ Head(t) \in {"-", "+"} THEN Tail(t) ELSE t
        d == LeadingDigits(u)
    IN  IF d = <<>> THEN <<>>
        ELSE <<(IF neg THEN -1 ELSE 1) * DigitsValue(d, 0)>>

\* String.prototype.trim: leading and trailing blanks removed.
RECURSIVE SkipTrailingSpaces(_)
SkipTrailingSpaces(s) ==
    IF s # <<>> /\ s[Len(s)] = " " THEN SkipTrailingSpaces(SubSeq(s, 1, Len(s) - 1)) ELSE s

Trim(s) == SkipTrailingSpaces(SkipSpaces(s))

\* ---------------------------------------------------------- optional values
\* JavaScript truthiness of an optional number: undefined and 0 are falsy.
Truthy(opt) == opt # <<>> /\ opt[1] # 0

\* ------------------------------------------------------------ environment
\* The source images the surrounding page can hand to the editor, each a
\* one-element sequence holding its URL.
Urls == {<<"a.png">>, <<"b.png">>}

\* The pixel content an unloaded <img> draws: nothing.
Blank == <<"blank">>

\* naturalWidth / naturalHeight of an image: a source image has its own
\* size, a raster produced by a crop has the size of the crop's canvas.
NaturalSize(img) ==
    IF img = <<"a.png">> THEN <<2000, 1333>>
    ELSE IF img = <<"b.png">> THEN <<1000, 500>>
    ELSE IF Len(img) = 8 THEN <<img[7], img[8]>>
    ELSE <<0, 0>>

\* getBoundingClientRect() of the image container and of the canvas that
\* covers it, in client pixels.
Rect == [left |-> 100, top |-> 50, width |-> 200, height |-> 200]

\* --------------------------------------------------------------- the state
VARIABLES
    isOpen,          \* prop: the modal is shown
    imageUrl,        \* prop: the source image
    history,         \* useState<EditorState[]>
    historyIndex,    \* useState(-1)
    currentImage,    \* useState(imageUrl)
    currentState,    \* useState<EditorState>
    activeTool,      \* useState<ToolType>
    drawMode,        \* useState<DrawMode>
    drawColor,       \* useState('#00a9ff')
    brushSize,       \* useState(12)
    resizeWidth,     \* useState('2000')
    resizeHeight,    \* useState('1333')
    maintainRatio,   \* useState(true)
    originalRatio,   \* useState(2000 / 1333)
    isDrawing,       \* useState(false)
    startPoint,      \* useState<{x, y} | null>: <<>> is null
    cropRatio,       \* useState<CropRatio>
    cropBox,         \* useState({left, top, width, height})
    dragSession,     \* useState<{type, startX, startY, startBox} | null>
    isCreatingCrop,  \* useState(false)
    textBold,        \* useState(false)
    textItalic,      \* useState(false)
    textUnderline,   \* useState(false)
    textAlign,       \* useState('left')
    textColor,       \* useState('#00a9ff')
    textSize,        \* useState(50)
    textObjects,     \* useState<any[]>([])
    editingTextId,   \* useState<string | null>: <<>> is null
    blurTimers,      \* the pending setTimeout callbacks of onBlur, with their closures
    inputFocused,    \* the text input of the object in edit mode has the focus
    now,             \* Date.now()
    imgComplete,     \* the <img> element: its current src is loaded
    imgLoadPending,  \* the <img> element: a load event is due
    effectDeps,      \* [isOpen, currentState.width] when the dimension effect last ran
    crashed,         \* a state updater threw while rendering: the component is gone
    alerted,         \* window.alert was called by the step that led here
    saveCount,       \* the number of times handleSave has been called
    saveDecodes,     \* the Image objects of handleSave that are loading, with their closures
    onSaveCalls,     \* the calls of onSave made so far, in order
    lastOp           \* the step that led here, with the cursor and length it started from

vars == <<isOpen, imageUrl, history, historyIndex, currentImage, currentState,
          activeTool, drawMode, drawColor, brushSize, resizeWidth, resizeHeight,
          maintainRatio, originalRatio, isDrawing, startPoint, cropRatio,
          cropBox, dragSession, isCreatingCrop, textBold, textItalic,
          textUnderline, textAlign, textColor, textSize, textObjects,
          editingTextId, blurTimers, inputFocused, now, imgComplete,
          imgLoadPending, effectDeps, crashed, alerted, saveCount, saveDecodes,
          onSaveCalls, lastOp>>

\* The whole state as one record: what a render's closures see.  A handler
\* starts with no alert raised.
World ==
    [isOpen |-> isOpen, imageUrl |-> imageUrl, history |-> history,
     historyIndex |-> historyIndex, currentImage |-> currentImage,
     currentState |-> currentState, activeTool |-> activeTool,
     drawMode |-> drawMode, drawColor |-> drawColor, brushSize |-> brushSize,
     resizeWidth |-> resizeWidth, resizeHeight |-> resizeHeight,
     maintainRatio |-> maintainRatio, originalRatio |-> originalRatio,
     isDrawing |-> isDrawing, startPoint |-> startPoint,
     cropRatio |-> cropRatio, cropBox |-> cropBox, dragSession |-> dragSession,
     isCreatingCrop |-> isCreatingCrop, textBold |-> textBold,
     textItalic |-> textItalic, textUnderline |-> textUnderline,
     textAlign |-> textAlign, textColor |-> textColor, textSize |-> textSize,
     textObjects |-> textObjects, editingTextId |-> editingTextId,
     blurTimers |-> blurTimers, inputFocused |-> inputFocused, now |-> now,
     imgComplete |-> imgComplete,
     imgLoadPending |-> imgLoadPending, effectDeps |-> effectDeps,
     crashed |-> crashed, alerted |-> FALSE, saveCount |-> saveCount,
     saveDecodes |-> saveDecodes, onSaveCalls |-> onSaveCalls]

\* The next state is the record w.
Becomes(w) ==
    /\ isOpen' = w.isOpen
    /\ imageUrl' = w.imageUrl
    /\ history' = w.history
    /\ historyIndex' = w.historyIndex
    /\ currentImage' = w.currentImage
    /\ currentState' = w.currentState
    /\ activeTool' = w.activeTool
    /\ drawMode' = w.drawMode
    /\ drawColor' = w.drawColor
    /\ brushSize' = w.brushSize
    /\ resizeWidth' = w.resizeWidth
    /\ resizeHeight' = w.resizeHeight
    /\ maintainRatio' = w.maintainRatio
    /\ originalRatio' = w.originalRatio
    /\ isDrawing' = w.isDrawing
    /\ startPoint' = w.startPoint
    /\ cropRatio' = w.cropRatio
    /\ cropBox' = w.cropBox
    /\ dragSession' = w.dragSession
    /\ isCreatingCrop' = w.isCreatingCrop
    /\ textBold' = w.textBold
    /\ textItalic' = w.textItalic
    /\ textUnderline' = w.textUnderline
    /\ textAlign' = w.textAlign
    /\ textColor' = w.textColor
    /\ textSize' = w.textSize
    /\ textObjects' = w.textObjects
    /\ editingTextId' = w.editingTextId
    /\ blurTimers' = w.blurTimers
    /\ inputFocused' = w.inputFocused
    /\ now' = w.now
    /\ imgComplete' = w.imgComplete
    /\ imgLoadPending' = w.imgLoadPending
    /\ effectDeps' = w.effectDeps
    /\ crashed' = w.crashed
    /\ alerted' = w.alerted
    /\ saveCount' = w.saveCount
    /\ saveDecodes' = w.saveDecodes
    /\ onSaveCalls' = w.onSaveCalls

\* ------------------------------------------------------------- EditorState
\* The baseline snapshot { rotation: 0, filter: 'none', drawings: [],
\* imageSrc: imageUrl }: width, height and mode are absent.
InitialState(url) ==
    [rotation |-> 0, filter |-> "none", drawings |-> <<>>,
     width |-> <<>>, height |-> <<>>, mode |-> "undefined", imageSrc |-> url]

ZeroBox == [left |-> RInt(0), top |-> RInt(0), width |-> RInt(0), height |-> RInt(0)]

filters == <<"none", "grayscale(100%)", "sepia(100%)", "blur(5px)", "brightness(150%)">>

\* Array.prototype.indexOf on filters, 0-based, -1 when absent.
FilterIndexOf(f) ==
    IF \E i \in 1..Len(filters) : filters[i] = f
    THEN (CHOOSE i \in 1..Len(filters) : filters[i] = f) - 1
    ELSE -1

\* Array.prototype.slice(0, n).
Slice0(seq, n) ==
    SubSeq(seq, 1, IF n < 0 THEN 0 ELSE IF n > Len(seq) THEN Len(seq) ELSE n)

\* ---------------------------------------------------------------- handlers
\* Mutant: the redo entries are kept and the new state goes after them.
pushState_keepRedo(s, newState) ==
    [s EXCEPT !.history = Append(s.history, newState),
              !.historyIndex = Len(s.history),
              !.currentState = newState]

\* Mutant: the cursor is set to the new length, one past the tip.
pushState_pastTip(s, newState) ==
    LET newHistory == Append(Slice0(s.history, s.historyIndex + 1), newState)
    IN  [s EXCEPT !.history = newHistory,
                  !.historyIndex = Len(newHistory),
                  !.currentState = newState]

pushState(s, newState) ==
    LET newHistory == Append(Slice0(s.history, s.historyIndex + 1), newState)
    IN  [s EXCEPT !.history = newHistory,
                  !.historyIndex = Len(newHistory) - 1,
                  !.currentState = newState]

\* The updates handleUndo / handleRedo make for the snapshot they move to.
ShowSnapshot(s, idx) ==
    LET st == s.history[idx + 1]
    IN  [s EXCEPT !.historyIndex = idx,
                  !.currentState = st,
                  !.currentImage = IF st.imageSrc # <<>> THEN st.imageSrc ELSE @,
                  !.resizeWidth = IF Truthy(st.width) THEN NumToString(st.width[1]) ELSE @,
                  !.resizeHeight = IF Truthy(st.height) THEN NumToString(st.height[1]) ELSE @]

\* Mutant: the cursor moves but the snapshot is not shown.
handleUndo_keepState(s) ==
    IF s.historyIndex > 0 THEN [s EXCEPT !.historyIndex = s.historyIndex - 1] ELSE s

handleUndo(s) ==
    IF s.historyIndex > 0 THEN ShowSnapshot(s, s.historyIndex - 1) ELSE s

\* Mutant: redo jumps to the tip.
handleRedo_toTip(s) ==
    IF s.historyIndex < Len(s.history) - 1 THEN ShowSnapshot(s, Len(s.history) - 1) ELSE s

handleRedo(s) ==
    IF s.historyIndex < Len(s.history) - 1 THEN ShowSnapshot(s, s.historyIndex + 1) ELSE s

\* Mutant: the reset also discards the text overlays.
handleReset_clearText(s) ==
    LET p == pushState(s, InitialState(s.imageUrl))
    IN  [p EXCEPT !.currentImage = s.imageUrl,
                  !.cropRatio = "custom",
                  !.cropBox = ZeroBox,
                  !.textObjects = <<>>]

handleReset(s) ==
    LET p == pushState(s, InitialState(s.imageUrl))
    IN  [p EXCEPT !.currentImage = s.imageUrl,
                  !.cropRatio = "custom",
                  !.cropBox = ZeroBox]

\* Mutant: the angle does not wrap.
handleRotate_noWrap(s) ==
    pushState(s, [s.currentState EXCEPT !.rotation = s.currentState.rotation + 90])

handleRotate(s) ==
    pushState(s, [s.currentState EXCEPT !.rotation = (s.currentState.rotation + 90) % 360])

\* Mutant: the filtered snapshot starts without strokes.
handleFilter_noDrawings(s) ==
    LET currentIdx == FilterIndexOf(s.currentState.filter)
        nextIdx == (currentIdx + 1) % Len(filters)
    IN  pushState(s, [s.currentState EXCEPT !.filter = filters[nextIdx + 1],
                                            !.drawings = <<>>])

handleFilter(s) ==
    LET currentIdx == FilterIndexOf(s.currentState.filter)
        nextIdx == (currentIdx + 1) % Len(filters)
    IN  pushState(s, [s.currentState EXCEPT !.filter = filters[nextIdx + 1]])


\* naturalWidth / naturalHeight of the <img> element as rendered from s:
\* zero until its src has loaded.
ImgNatural(s) == IF s.imgComplete THEN NaturalSize(s.currentImage) ELSE <<0, 0>>

handleImageLoad(s) ==
    LET naturalW == NaturalSize(s.currentImage)[1]
        naturalH == NaturalSize(s.currentImage)[2]
        idx == IF s.historyIndex >= 0 THEN s.historyIndex ELSE 0
        s1 == [s EXCEPT !.resizeWidth = NumToString(naturalW),
                        !.resizeHeight = NumToString(naturalH),
                        !.originalRatio = Rat(naturalW, naturalH)]
    IN  IF ~Truthy(s.currentState.width)
        THEN [s1 EXCEPT
                !.currentState = [@ EXCEPT !.width = <<naturalW>>, !.height = <<naturalH>>],
                !.history = IF Len(@) > 0 /\ idx < Len(@)
                            THEN [@ EXCEPT ![idx + 1] =
                                    [@ EXCEPT !.width = <<naturalW>>, !.height = <<naturalH>>]]
                            ELSE @]
        ELSE s1

\* The effect "ensure dimensions are captured even if onLoad is skipped",
\* run with the closures of the render s.
EnsureDimensions(s) ==
    IF s.isOpen /\ s.imgComplete /\ ImgNatural(s)[1] # 0 /\ ~Truthy(s.currentState.width)
    THEN handleImageLoad(s)
    ELSE s

\* The render that follows a handler: prev is the state the handler ran in
\* and next the state it left.  An <img> whose src changed starts loading
\* (complete at once, c, when the browser already holds the image) and owes
\* a load event.
Render(prev, next, c) ==
    IF next.isOpen /\ next.currentImage # prev.currentImage
    THEN [next EXCEPT !.imgComplete = c, !.imgLoadPending = TRUE]
    ELSE next

\* The effect "initialize history", run with the closures of the render s.
InitializeHistory(s) ==
    IF s.isOpen
    THEN [s EXCEPT !.history = <<InitialState(s.imageUrl)>>,
                   !.historyIndex = 0,
                   !.currentState = InitialState(s.imageUrl),
                   !.currentImage = s.imageUrl,
                   !.activeTool = "none"]
    ELSE s

\* isOpen becomes true.  The first render with isOpen mounts the <img> with
\* the src left by the previous session (complete at once, c0, when the
\* browser already holds that image).  Both effects then run with that
\* render's closures, in declaration order, and their state updates are
\* applied together: the later update of a state variable wins.
OpenModal(s, c0, c1) ==
    LET r0 == [s EXCEPT !.isOpen = TRUE, !.imgComplete = c0, !.imgLoadPending = TRUE]
        e1 == InitializeHistory(r0)
        e2 == EnsureDimensions(r0)
        s1 == IF e2 = r0 THEN e1
              ELSE [e1 EXCEPT !.resizeWidth = e2.resizeWidth,
                              !.resizeHeight = e2.resizeHeight,
                              !.originalRatio = e2.originalRatio,
                              !.currentState = e2.currentState,
                              !.history = e2.history]
    IN  Render(r0, [s1 EXCEPT !.effectDeps = <<TRUE, r0.currentState.width>>], c1)

\* isOpen becomes false: the component renders null and the <img> is gone.
CloseModal(s) ==
    [s EXCEPT !.isOpen = FALSE, !.imgComplete = FALSE, !.imgLoadPending = FALSE]


\* ------------------------------------------------------------------ resize
\* onChange of the width field.
\* Mutant: the width is multiplied by the ratio.
resizeWidthChange_times(s, val) ==
    LET w == ParseInt(val)
    IN  [s EXCEPT !.resizeWidth = val,
                  !.resizeHeight =
                      IF s.maintainRatio /\ w # <<>>
                      THEN NumToString(MathRound(RMul(RInt(w[1]), s.originalRatio)))
                      ELSE @]

resizeWidthChange(s, val) ==
    LET w == ParseInt(val)
    IN  [s EXCEPT !.resizeWidth = val,
                  !.resizeHeight =
                      IF s.maintainRatio /\ w # <<>>
                      THEN NumToString(MathRound(RDiv(RInt(w[1]), s.originalRatio)))
                      ELSE @]

\* onChange of the height field.
resizeHeightChange(s, val) ==
    LET h == ParseInt(val)
    IN  [s EXCEPT !.resizeHeight = val,
                  !.resizeWidth =
                      IF s.maintainRatio /\ h # <<>>
                      THEN NumToString(MathRound(RMul(RInt(h[1]), s.originalRatio)))
                      ELSE @]

\* Mutant: only the width field is validated.
handleResizeApply_widthOnly(s) ==
    LET w == ParseInt(s.resizeWidth)
        h == ParseInt(s.resizeHeight)
    IN  IF w # <<>>
        THEN [pushState(s, [s.currentState EXCEPT !.width = w, !.height = h,
                                                  !.mode = "resize"])
                EXCEPT !.activeTool = "none"]
        ELSE s

handleResizeApply(s) ==
    LET w == ParseInt(s.resizeWidth)
        h == ParseInt(s.resizeHeight)
    IN  IF w # <<>> /\ h # <<>>
        THEN [pushState(s, [s.currentState EXCEPT !.width = w, !.height = h,
                                                  !.mode = "resize"])
                EXCEPT !.activeTool = "none"]
        ELSE s

\* -------------------------------------------------------------------- crop
CropRatios == {"custom", "square", "3:2", "4:3", "5:4", "7:5", "16:9"}

ratios ==
    [r \in CropRatios \ {"custom"} |->
        CASE r = "square" -> Rat(1, 1)
          [] r = "3:2" -> Rat(3, 2)
          [] r = "4:3" -> Rat(4, 3)
          [] r = "5:4" -> Rat(5, 4)
          [] r = "7:5" -> Rat(7, 5)
          [] r = "16:9" -> Rat(16, 9)]

\* What canvas.toDataURL returns after drawImage(img, sx, sy, sw, sh, 0, 0,
\* dw, dh): the pixels of that source rectangle of img scaled to dw x dh.
DataUrl(img, sx, sy, sw, sh, dw, dh) == <<"crop", img, sx, sy, sw, sh, dw, dh>>

\* The custom-crop validation: the box is under 1% on an axis, or the pixel
\* rectangle it selects from width x height is under 10 pixels on an axis.
CropTooSmall_boxOnly(box, width, height) ==
    RLt(box.width, RInt(1)) \/ RLt(box.height, RInt(1))

CropTooSmall(box, width, height) ==
    \/ RLt(box.width, RInt(1)) \/ RLt(box.height, RInt(1))
    \/ RLt(RDiv(RMul(RInt(width), box.width), RInt(100)), RInt(10))
    \/ RLt(RDiv(RMul(RInt(height), box.height), RInt(100)), RInt(10))

\* width / height > tr: the source is wider than the target ratio.
PresetWide_flipped(tr, width, height) == RLt(Rat(width, height), tr)

PresetWide(tr, width, height) == RLt(tr, Rat(width, height))

\* Mutant: the crop box is left as drawn.
CropCommitted_keepBox(s, croppedDataUrl, roundedWidth, roundedHeight) ==
    LET pushed == pushState(s, [s.currentState EXCEPT !.width = <<roundedWidth>>,
                                                     !.height = <<roundedHeight>>,
                                                     !.mode = "crop",
                                                     !.imageSrc = croppedDataUrl])
    IN  [pushed EXCEPT !.originalRatio = Rat(roundedWidth, roundedHeight),
                       !.currentImage = croppedDataUrl,
                       !.resizeWidth = NumToString(roundedWidth),
                       !.resizeHeight = NumToString(roundedHeight),
                       !.activeTool = "none"]

\* The state updates of a crop whose raster was produced.
CropCommitted(s, croppedDataUrl, roundedWidth, roundedHeight) ==
    LET pushed == pushState(s, [s.currentState EXCEPT !.width = <<roundedWidth>>,
                                                     !.height = <<roundedHeight>>,
                                                     !.mode = "crop",
                                                     !.imageSrc = croppedDataUrl])
    IN  [pushed EXCEPT !.originalRatio = Rat(roundedWidth, roundedHeight),
                       !.currentImage = croppedDataUrl,
                       !.resizeWidth = NumToString(roundedWidth),
                       !.resizeHeight = NumToString(roundedHeight),
                       !.cropBox = ZeroBox,
                       !.activeTool = "none"]

\* Mutant: the catch block leaves the tool active.
CropFailed_keepTool(s) == [s EXCEPT !.alerted = TRUE]

\* The catch block: alert(...) and setActiveTool('none').
CropFailed(s) == [s EXCEPT !.alerted = TRUE, !.activeTool = "none"]

\* outcome is what the browser does with the canvas: "ok", "noctx"
\* (getContext returns null) or "throw" (drawImage / toDataURL throws).
handleCropApply(s, outcome) ==
    LET cs == s.currentState
        width == IF Truthy(cs.width) THEN cs.width[1] ELSE ImgNatural(s)[1]
        height == IF Truthy(cs.height) THEN cs.height[1] ELSE ImgNatural(s)[2]
        custom == s.cropRatio = "custom"
        tr == ratios[s.cropRatio]
        wide == PresetWide(tr, width, height)
        pctW == RDiv(RMul(RInt(width), s.cropBox.width), RInt(100))
        pctH == RDiv(RMul(RInt(height), s.cropBox.height), RInt(100))
        finalWidth == IF custom THEN pctW
                      ELSE IF wide THEN RMul(RInt(height), tr) ELSE RInt(width)
        finalHeight == IF custom THEN pctH
                       ELSE IF wide THEN RInt(height) ELSE RDiv(RInt(width), tr)
        roundedWidth == MathRound(finalWidth)
        roundedHeight == MathRound(finalHeight)
        sw == IF custom THEN pctW
              ELSE IF wide THEN RMul(RInt(height), tr) ELSE RInt(width)
        sh == IF custom THEN pctH
              ELSE IF wide THEN RInt(height) ELSE RDiv(RInt(width), tr)
        sx == IF custom THEN RDiv(RMul(RInt(width), s.cropBox.left), RInt(100))
              ELSE IF wide THEN RDiv(RSub(RInt(width), sw), RInt(2)) ELSE RInt(0)
        sy == IF custom THEN RDiv(RMul(RInt(height), s.cropBox.top), RInt(100))
              ELSE IF wide THEN RInt(0) ELSE RDiv(RSub(RInt(height), sh), RInt(2))
        pixels == IF s.imgComplete THEN s.currentImage ELSE Blank
        croppedDataUrl == DataUrl(pixels, sx, sy, sw, sh, roundedWidth, roundedHeight)
    IN  IF width = 0 \/ height = 0 THEN s
        ELSE IF custom /\ CropTooSmall(s.cropBox, width, height) THEN s
        ELSE IF outcome = "noctx" THEN s
        ELSE IF outcome = "throw" THEN CropFailed(s)
        ELSE CropCommitted(s, croppedDataUrl, roundedWidth, roundedHeight)

NoDrag == [type |-> "null"]

\* ((v - origin) / extent) * 100, clamped to [0, 100].
ClampPercent(v, origin, extent) ==
    RMax(RInt(0), RMin(RInt(100), RMul(Rat(v - origin, extent), RInt(100))))

handleCropBoxMouseDown(s, type, p) ==
    [s EXCEPT !.dragSession =
        [type |-> type, startX |-> p[1], startY |-> p[2], startBox |-> s.cropBox]]

\* `text-${Date.now()}`
TextId(ms) == <<"text-", ms>>

\* The text tool's branch of handleEditorMouseDown.
CreateText_rawPosition(s, p) ==
    LET xPercent == RMul(Rat(p[1] - Rect.left, Rect.width), RInt(100))
        yPercent == RMul(Rat(p[2] - Rect.top, Rect.height), RInt(100))
        newTextId == TextId(s.now)
        newText == [id |-> newTextId, text |-> <<>>, x |-> xPercent, y |-> yPercent,
                    size |-> s.textSize, color |-> s.textColor, bold |-> s.textBold,
                    italic |-> s.textItalic, underline |-> s.textUnderline,
                    align |-> s.textAlign]
    IN  [s EXCEPT !.textObjects = Append(@, newText),
                  !.editingTextId = <<newTextId>>]

CreateText(s, p) ==
    LET xPercent == ClampPercent(p[1], Rect.left, Rect.width)
        yPercent == ClampPercent(p[2], Rect.top, Rect.height)
        newTextId == TextId(s.now)
        newText == [id |-> newTextId, text |-> <<>>, x |-> xPercent, y |-> yPercent,
                    size |-> s.textSize, color |-> s.textColor, bold |-> s.textBold,
                    italic |-> s.textItalic, underline |-> s.textUnderline,
                    align |-> s.textAlign]
    IN  [s EXCEPT !.textObjects = Append(@, newText),
                  !.editingTextId = <<newTextId>>]

\* The text tool's branch returns before the crop branch.
handleEditorMouseDown(s, p) ==
    IF s.activeTool = "text" THEN CreateText(s, p)
    ELSE IF s.activeTool # "crop" \/ s.cropRatio # "custom" THEN s
    ELSE
        LET startXPercent == ClampPercent(p[1], Rect.left, Rect.width)
            startYPercent == ClampPercent(p[2], Rect.top, Rect.height)
            box == [left |-> startXPercent, top |-> startYPercent,
                    width |-> RInt(0), height |-> RInt(0)]
        IN  [s EXCEPT !.isCreatingCrop = TRUE,
                      !.cropBox = box,
                      !.dragSession = [type |-> "create", startX |-> p[1],
                                       startY |-> p[2], startBox |-> box]]

\* ------------------------------------------------------------ text objects
\* textObjects.filter(t => t.id !== id)
WithoutId(objs, id) == SelectSeq(objs, LAMBDA o : o.id # id)

\* The text input is rendered for the objects whose id is editingTextId.
IsEditing(s, i) == s.editingTextId = <<s.textObjects[i].id>>

InputRendered(s) ==
    s.isOpen /\ \E i \in 1..Len(s.textObjects) : IsEditing(s, i)

\* The object the rendered input belongs to (the first, should ids repeat).
EditedIndex(s) ==
    CHOOSE i \in 1..Len(s.textObjects) :
        IsEditing(s, i) /\ \A j \in 1..(i - 1) : ~IsEditing(s, j)

\* onChange of the input of textObjects[i].
textInputChange(s, i, val) ==
    [s EXCEPT !.textObjects =
        [k \in 1..Len(s.textObjects) |->
            IF s.textObjects[k].id = s.textObjects[i].id
            THEN [s.textObjects[k] EXCEPT !.text = val]
            ELSE s.textObjects[k]]]

\* onBlur of the input of textObjects[i]: the cleanup is scheduled with the
\* textObj and textObjects of this render.
textInputBlur(s, i) ==
    [s EXCEPT !.blurTimers = Append(@, [textObj |-> s.textObjects[i],
                                        textObjects |-> s.textObjects]),
              !.inputFocused = FALSE]

\* The callback of the setTimeout of onBlur.
BlurCleanup_emptyOnly(s, timer) ==
    [s EXCEPT !.textObjects = IF timer.textObj.text = <<>>
                              THEN WithoutId(timer.textObjects, timer.textObj.id)
                              ELSE @,
              !.editingTextId = <<>>]

BlurCleanup(s, timer) ==
    [s EXCEPT !.textObjects = IF Trim(timer.textObj.text) = <<>>
                              THEN WithoutId(timer.textObjects, timer.textObj.id)
                              ELSE @,
              !.editingTextId = <<>>]

\* onKeyDown of the input of textObjects[i].
textInputKeyDown(s, i, key) ==
    IF key = "Enter" THEN textInputBlur(s, i)
    ELSE IF key = "Escape"
    THEN [s EXCEPT !.textObjects = WithoutId(s.textObjects, s.textObjects[i].id),
                   !.editingTextId = <<>>]
    ELSE s

\* onClick of the overlay of textObjects[i], which is not in edit mode.
textClick(s, i) == [s EXCEPT !.editingTextId = <<s.textObjects[i].id>>]

\* Delete / Backspace on the overlay of textObjects[i], or its delete button.
textDelete(s, i) ==
    [s EXCEPT !.textObjects = WithoutId(s.textObjects, s.textObjects[i].id)]

\* The render that follows a text step.  A mounted input takes the focus
\* (autoFocus); an input that keeps its key keeps its focus; a focused input
\* that is unmounted may deliver a blur event (b), whose handler has the
\* closures of the last render the input was in.
TextRender(prev, next, b) ==
    LET was == InputRendered(prev)
        is == InputRendered(next)
        same == was /\ is /\ prev.editingTextId = next.editingTextId
        unmounted == was /\ ~same /\ prev.inputFocused
        n1 == IF unmounted /\ b
              THEN [next EXCEPT !.blurTimers =
                        Append(@, [textObj |-> prev.textObjects[EditedIndex(prev)],
                                   textObjects |-> prev.textObjects])]
              ELSE next
    IN  [n1 EXCEPT !.inputFocused = IF same THEN next.inputFocused ELSE is]

\* The states a text step can leave, with at most MaxTimers cleanups pending.
TextRenders(prev, next) ==
    {n \in {TextRender(prev, next, b) : b \in BOOLEAN} : Len(n.blurTimers) <= MaxTimers}

\* String.prototype.includes for the handle names.
Includes(type, part) ==
    CASE part = "right" -> type \in {"right", "top-right", "bottom-right"}
      [] part = "left" -> type \in {"left", "top-left", "bottom-left"}
      [] part = "bottom" -> type \in {"bottom", "bottom-left", "bottom-right"}
      [] part = "top" -> type \in {"top", "top-left", "top-right"}

\* Mutant: the pointer's offset from the drag origin is added to the box as
\* the last move left it.
handleEditorMouseMove_accumulate(s, p) ==
    IF s.dragSession = NoDrag THEN s
    ELSE
        LET ds == s.dragSession
            deltaX == RMul(Rat(p[1] - ds.startX, Rect.width), RInt(100))
            deltaY == RMul(Rat(p[2] - ds.startY, Rect.height), RInt(100))
        IN  [s EXCEPT !.cropBox.left = RMax(RInt(0), RAdd(s.cropBox.left, deltaX)),
                      !.cropBox.top = RMax(RInt(0), RAdd(s.cropBox.top, deltaY))]

handleEditorMouseMove(s, p) ==
    IF s.dragSession = NoDrag THEN s
    ELSE
        LET ds == s.dragSession
            sb == ds.startBox
            deltaX == RMul(Rat(p[1] - ds.startX, Rect.width), RInt(100))
            deltaY == RMul(Rat(p[2] - ds.startY, Rect.height), RInt(100))
            five == RInt(5)
            hundred == RInt(100)
            zero == RInt(0)
            \* horizontal edges
            newLeftC == RMax(zero, RAdd(sb.left, deltaX))
            possibleX == RMax(zero, RMin(RSub(RAdd(sb.left, sb.width), five),
                                         RAdd(sb.left, deltaX)))
            h1 == IF ds.type = "create"
                  THEN IF RLe(zero, deltaX)
                       THEN [sb EXCEPT !.left = sb.left,
                                       !.width = RMin(RSub(hundred, sb.left), deltaX)]
                       ELSE [sb EXCEPT !.left = newLeftC,
                                       !.width = RSub(sb.left, newLeftC)]
                  ELSE IF ds.type = "move"
                  THEN sb
                  ELSE IF Includes(ds.type, "right")
                  THEN [sb EXCEPT !.width =
                          RMax(five, RMin(RSub(hundred, sb.left), RAdd(sb.width, deltaX)))]
                  ELSE IF Includes(ds.type, "left")
                  THEN [sb EXCEPT !.width = RAdd(sb.width, RSub(sb.left, possibleX)),
                                  !.left = possibleX]
                  ELSE sb
            \* vertical edges of a created box, or a moved box
            newTopC == RMax(zero, RAdd(sb.top, deltaY))
            h2 == IF ds.type = "create"
                  THEN IF RLe(zero, deltaY)
                       THEN [h1 EXCEPT !.top = sb.top,
                                       !.height = RMin(RSub(hundred, sb.top), deltaY)]
                       ELSE [h1 EXCEPT !.top = newTopC,
                                       !.height = RSub(sb.top, newTopC)]
                  ELSE IF ds.type = "move"
                  THEN [h1 EXCEPT
                          !.left = RMax(zero, RMin(RSub(hundred, sb.width),
                                                   RAdd(sb.left, deltaX))),
                          !.top = RMax(zero, RMin(RSub(hundred, sb.height),
                                                  RAdd(sb.top, deltaY)))]
                  ELSE h1
            \* vertical edges of a handle drag
            possibleY == RMax(zero, RMin(RSub(RAdd(sb.top, sb.height), five),
                                         RAdd(sb.top, deltaY)))
            newBox == IF ds.type # "create"
                      THEN IF Includes(ds.type, "bottom")
                           THEN [h2 EXCEPT !.height =
                                   RMax(five, RMin(RSub(hundred, h2.top),
                                                   RAdd(sb.height, deltaY)))]
                           ELSE IF Includes(ds.type, "top")
                           THEN [h2 EXCEPT !.height = RAdd(sb.height, RSub(sb.top, possibleY)),
                                           !.top = possibleY]
                           ELSE h2
                      ELSE h2
        IN  [s EXCEPT !.cropBox = newBox]

handleEditorMouseUp(s) ==
    [s EXCEPT !.dragSession = NoDrag, !.isCreatingCrop = FALSE]


\* -------------------------------------------------------------------- save
\* The path of a stroke as img.onload traces it: a freehand stroke joins its
\* points, a line joins its start and its end.
StrokePath(drawing) ==
    IF drawing.mode = "free" THEN drawing.points
    ELSE IF drawing.mode = "line" THEN <<drawing.start, drawing.end>>
    ELSE <<>>

\* The paint calls of img.onload, in the order they reach the canvas: the
\* drawImage of the decoded image under the rotation and the filter (both
\* dropped again by ctx.restore), one stroke() per entry of
\* currentState.drawings, one fillText per text object.
\* Mutant: the text objects are painted before the strokes.
Paint_textFirst(decode) ==
    LET cs == decode.currentState
        base == [layer |-> "image", image |-> decode.image,
                 rotation |-> cs.rotation, filter |-> cs.filter]
        strokes == [k \in 1..Len(cs.drawings) |->
                       [layer |-> "stroke", color |-> cs.drawings[k].color,
                        size |-> cs.drawings[k].size,
                        path |-> StrokePath(cs.drawings[k])]]
        texts == [k \in 1..Len(decode.textObjects) |->
                     [layer |-> "text", textObj |-> decode.textObjects[k]]]
    IN  <<base>> \o texts \o strokes

Paint(decode) ==
    LET cs == decode.currentState
        base == [layer |-> "image", image |-> decode.image,
                 rotation |-> cs.rotation, filter |-> cs.filter]
        strokes == [k \in 1..Len(cs.drawings) |->
                       [layer |-> "stroke", color |-> cs.drawings[k].color,
                        size |-> cs.drawings[k].size,
                        path |-> StrokePath(cs.drawings[k])]]
        texts == [k \in 1..Len(decode.textObjects) |->
                     [layer |-> "text", textObj |-> decode.textObjects[k]]]
    IN  <<base>> \o strokes \o texts

\* canvas.toDataURL('image/png') of the canvas handleSave paints: the decoded
\* image at its own size, rotated and filtered, then the strokes, then the
\* text objects.
Composite(decode) ==
    [type |-> "image/png",
     size |-> NaturalSize(decode.image),
     image |-> decode.image,
     rotation |-> decode.currentState.rotation,
     filter |-> decode.currentState.filter,
     drawings |-> decode.currentState.drawings,
     texts |-> decode.textObjects,
     layers |-> Paint(decode)]

\* Mutant: the snapshot painted is the last entry of the history.
handleSave_tip(s, ctx) ==
    LET n == [s EXCEPT !.saveCount = @ + 1]
        tip == IF s.history = <<>> THEN s.currentState ELSE s.history[Len(s.history)]
    IN  IF ~ctx THEN n
        ELSE [n EXCEPT !.saveDecodes = Append(@,
                  [save |-> n.saveCount, image |-> s.currentImage,
                   currentState |-> tip, textObjects |-> s.textObjects])]

\* handleSave: without a 2d context nothing happens; otherwise an Image
\* starts to load currentImage, and its onload keeps the currentState and
\* textObjects of this render.
handleSave(s, ctx) ==
    LET n == [s EXCEPT !.saveCount = @ + 1]
    IN  IF ~ctx THEN n
        ELSE [n EXCEPT !.saveDecodes = Append(@,
                  [save |-> n.saveCount, image |-> s.currentImage,
                   currentState |-> s.currentState, textObjects |-> s.textObjects])]

\* The sequence seq without its k-th element.
RemoveAt(seq, k) == SubSeq(seq, 1, k - 1) \o SubSeq(seq, k + 1, Len(seq))

\* Mutant: onload paints the state of the moment the Image has loaded.
saveImageLoaded_live(s, k) ==
    [s EXCEPT !.saveDecodes = RemoveAt(@, k),
              !.onSaveCalls = Append(@,
                  [save |-> s.saveDecodes[k].save,
                   artifact |-> Composite([s.saveDecodes[k] EXCEPT
                                              !.image = s.currentImage,
                                              !.currentState = s.currentState,
                                              !.textObjects = s.textObjects])])]

\* Mutant: onload reports the artifact twice.
saveImageLoaded_twice(s, k) ==
    LET call == [save |-> s.saveDecodes[k].save, artifact |-> Composite(s.saveDecodes[k])]
    IN  [s EXCEPT !.saveDecodes = RemoveAt(@, k),
                  !.onSaveCalls = Append(Append(@, call), call)]

\* img.onload of the k-th loading Image.
saveImageLoaded(s, k) ==
    [s EXCEPT !.saveDecodes = RemoveAt(@, k),
              !.onSaveCalls = Append(@, [save |-> s.saveDecodes[k].save,
                                         artifact |-> Composite(s.saveDecodes[k])])]

\* The k-th loading Image fails to load: it has no onerror handler.
saveImageFailed(s, k) == [s EXCEPT !.saveDecodes = RemoveAt(@, k)]

\* ------------------------------------------------------------- tool styles
\* Mutant: picking a brush colour recolours the strokes already drawn.
setDrawColor_restyle(s, color) ==
    [s EXCEPT !.drawColor = color,
              !.currentState.drawings =
                  [k \in 1..Len(s.currentState.drawings) |->
                      [s.currentState.drawings[k] EXCEPT !.color = color]]]

\* A preset of the brush colour picker.
setDrawColor(s, color) == [s EXCEPT !.drawColor = color]

\* The brush size slider.
setBrushSize(s, size) == [s EXCEPT !.brushSize = size]

\* The controls of the text sub-toolbar.
TextStyleKinds == {"bold", "italic", "underline", "align", "color", "size"}

setTextStyle(s, kind) ==
    CASE kind = "bold" -> [s EXCEPT !.textBold = ~@]
      [] kind = "italic" -> [s EXCEPT !.textItalic = ~@]
      [] kind = "underline" -> [s EXCEPT !.textUnderline = ~@]
      [] kind = "align" -> [s EXCEPT !.textAlign = "center"]
      [] kind = "color" -> [s EXCEPT !.textColor = "#ff0000"]
      [] kind = "size" -> [s EXCEPT !.textSize = 24]

\* -------------------------------------------------------------------- draw
\* A client position in the canvas's own pixel space: the canvas is
\* (currentState.width || 1200) x (currentState.height || 800) pixels shown
\* in Rect.
CanvasPoint(s, p) ==
    LET canvasWidth == IF Truthy(s.currentState.width) THEN s.currentState.width[1] ELSE 1200
        canvasHeight == IF Truthy(s.currentState.height) THEN s.currentState.height[1] ELSE 800
        scaleX == Rat(canvasWidth, Rect.width)
        scaleY == Rat(canvasHeight, Rect.height)
    IN  <<RMul(RInt(p[1] - Rect.left), scaleX), RMul(RInt(p[2] - Rect.top), scaleY)>>

handleCanvasMouseDown(s, p) ==
    IF s.activeTool # "draw" THEN s
    ELSE
        LET newDrawing == [mode |-> "free", color |-> s.drawColor, size |-> s.brushSize,
                           points |-> <<CanvasPoint(s, p)>>]
        IN  [s EXCEPT !.isDrawing = TRUE,
                      !.startPoint = CanvasPoint(s, p),
                      !.currentState =
                          IF s.drawMode = "free"
                          THEN [@ EXCEPT !.drawings = Append(@, newDrawing)]
                          ELSE @]

\* The state updater reads the points of the last drawing: with no drawing,
\* or with a last drawing that has no points (a line), it throws.
\* Mutant: each move replaces the points by the new point.
handleCanvasMouseMove_lastOnly(s, p) ==
    IF ~s.isDrawing \/ s.activeTool # "draw" THEN s
    ELSE IF s.drawMode # "free" THEN s
    ELSE
        LET drawings == s.currentState.drawings
            lastIdx == Len(drawings)
        IN  IF lastIdx = 0 \/ drawings[lastIdx].mode # "free"
            THEN [s EXCEPT !.crashed = TRUE]
            ELSE [s EXCEPT !.currentState.drawings[lastIdx].points =
                              <<CanvasPoint(s, p)>>]

handleCanvasMouseMove(s, p) ==
    IF ~s.isDrawing \/ s.activeTool # "draw" THEN s
    ELSE IF s.drawMode # "free" THEN s
    ELSE
        LET drawings == s.currentState.drawings
            lastIdx == Len(drawings)
        IN  IF lastIdx = 0 \/ drawings[lastIdx].mode # "free"
            THEN [s EXCEPT !.crashed = TRUE]
            ELSE [s EXCEPT !.currentState.drawings[lastIdx].points =
                              Append(@, CanvasPoint(s, p))]

\* Mutant: the line ends where it started.
handleCanvasMouseUp_noEnd(s, p) ==
    IF ~s.isDrawing \/ s.activeTool # "draw" THEN s
    ELSE
        LET newDrawing == [mode |-> "line", color |-> s.drawColor, size |-> s.brushSize,
                           start |-> s.startPoint, end |-> s.startPoint]
            s1 == IF s.drawMode = "line" /\ s.startPoint # <<>>
                  THEN pushState(s, [s.currentState EXCEPT !.drawings = Append(@, newDrawing)])
                  ELSE IF s.drawMode = "free"
                  THEN pushState(s, s.currentState)
                  ELSE s
        IN  [s1 EXCEPT !.isDrawing = FALSE, !.startPoint = <<>>]

handleCanvasMouseUp(s, p) ==
    IF ~s.isDrawing \/ s.activeTool # "draw" THEN s
    ELSE
        LET newDrawing == [mode |-> "line", color |-> s.drawColor, size |-> s.brushSize,
                           start |-> s.startPoint, end |-> CanvasPoint(s, p)]
            s1 == IF s.drawMode = "line" /\ s.startPoint # <<>>
                  THEN pushState(s, [s.currentState EXCEPT !.drawings = Append(@, newDrawing)])
                  ELSE IF s.drawMode = "free"
                  THEN pushState(s, s.currentState)
                  ELSE s
        IN  [s1 EXCEPT !.isDrawing = FALSE, !.startPoint = <<>>]

\* ------------------------------------------------------------------ inputs
\* Client positions of the pointer.  With Rect they are 10%, 10.5%, 11% and
\* 60% of the container on both axes.
PointA == <<120, 70>>
PointB == <<121, 71>>
PointC == <<122, 72>>
PointD == <<220, 170>>
\* Positions near the right edge of the container (96% and 98% across) and
\* near its left edge (1% and 3% across), 20% and 25% down.
PointF == <<292, 90>>
PointG == <<296, 100>>
PointK == <<102, 90>>
PointL == <<106, 100>>

\* A position in the editor area below the image container.
PointE == <<120, 300>>

\* What the user leaves in a text input: a blank, a letter.
TextValues == {<<" ">>, <<"a">>}

\* What the user types into the width field: a number, letters.
WidthInputs == {<<"8", "0", "0">>, <<"a", "b", "c">>}

\* What the user types into the fields while the ratio is watched.
RatioWidthInputs == {<<"1", "0", "0", "0">>, <<"w">>}
RatioHeightInputs == {<<"6", "6", "7">>, <<>>}

\* Numerals that parse as integers but are no sizes: zero, a negative number.
SignedWidthInputs == {<<"0">>, <<"-", "5">>}

\* What the user types into the height field: nothing, a number followed by
\* a unit.
HeightInputs == {<<>>, <<"1", "2", "p", "x">>}

CropOutcomes == {"ok", "noctx", "throw"}

\* -------------------------------------------------------------------- Init
Init ==
    /\ isOpen = FALSE
    /\ imageUrl \in Urls
    /\ history = <<>>
    /\ historyIndex = -1
    /\ currentImage = imageUrl
    /\ currentState = InitialState(imageUrl)
    /\ activeTool = "none"
    /\ drawMode = "free"
    /\ drawColor = "#00a9ff"
    /\ brushSize = 12
    /\ resizeWidth = <<"2", "0", "0", "0">>
    /\ resizeHeight = <<"1", "3", "3", "3">>
    /\ maintainRatio = TRUE
    /\ originalRatio = Rat(2000, 1333)
    /\ isDrawing = FALSE
    /\ startPoint = <<>>
    /\ cropRatio = "custom"
    /\ cropBox = ZeroBox
    /\ dragSession = NoDrag
    /\ isCreatingCrop = FALSE
    /\ textBold = FALSE
    /\ textItalic = FALSE
    /\ textUnderline = FALSE
    /\ textAlign = "left"
    /\ textColor = "#00a9ff"
    /\ textSize = 50
    /\ textObjects = <<>>
    /\ editingTextId = <<>>
    /\ blurTimers = <<>>
    /\ inputFocused = FALSE
    /\ now = 0
    /\ imgComplete = FALSE
    /\ imgLoadPending = FALSE
    /\ effectDeps = <<FALSE, <<>>>>
    /\ crashed = FALSE
    /\ alerted = FALSE
    /\ saveCount = 0
    /\ saveDecodes = <<>>
    /\ onSaveCalls = <<>>
    /\ lastOp = [name |-> "mount", historyIndex |-> -1, length |-> 0]

\* ----------------------------------------------------------------- actions
\* The dimension effect is due: one of its dependencies changed since it
\* last ran.  React runs a due effect before it handles the next event.
EffectPending == effectDeps # <<isOpen, currentState.width>>

\* The editor is on screen and its handlers can run.
Live == isOpen /\ ~crashed /\ ~EffectPending

\* The modal is hidden.
Hidden == ~isOpen /\ ~crashed /\ ~EffectPending

\* A push from the state s leaves at most maxLen entries.
CanPush(s, maxLen) == s.historyIndex + 2 <= maxLen

\* The step called name ran and left the state w.
Did(name, w) ==
    /\ Becomes(w)
    /\ lastOp' = [name |-> name, historyIndex |-> historyIndex, length |-> Len(history)]

\* The handler called name ran and left the state n; the render that follows
\* settles it.
Handled(name, n) == \E c \in BOOLEAN : Did(name, Render(World, n, c))

\* The pointer event called name at the client position p ran and left the
\* state n.
HandledAt(name, p, n) ==
    \E c \in BOOLEAN :
        /\ Becomes(Render(World, n, c))
        /\ lastOp' = [name |-> name, historyIndex |-> historyIndex,
                      length |-> Len(history), point |-> p]

\* useEffect(..., [isOpen, currentState.width]).
DimensionsEffect ==
    /\ ~crashed /\ EffectPending
    /\ Handled("effect", [EnsureDimensions(World) EXCEPT
                  !.effectDeps = <<isOpen, currentState.width>>])

\* The surrounding page shows the modal.
Open ==
    /\ Hidden
    /\ \E c0, c1 \in BOOLEAN :
          \E n \in TextRenders(World, OpenModal(World, c0, c1)) : Did("open", n)

\* The surrounding page hides the modal (after onClose, or on its own).
Close ==
    /\ Live
    /\ \E n \in TextRenders(World, CloseModal(World)) : Did("close", n)

\* The surrounding page picks another source image while the modal is hidden.
SetImageUrl ==
    /\ Hidden
    /\ \E u \in Urls \ {imageUrl} : Did("setImageUrl", [World EXCEPT !.imageUrl = u])

\* The <img> element's load event.
ImageLoad ==
    /\ Live /\ imgLoadPending
    /\ NaturalSize(currentImage)[1] > 0 /\ NaturalSize(currentImage)[2] > 0
    /\ LET w == [World EXCEPT !.imgComplete = TRUE, !.imgLoadPending = FALSE]
       IN  Handled("imageLoad", handleImageLoad(w))

\* The handlers run whenever the editor is live; the undo and redo buttons
\* are disabled exactly where the handlers' own guards make them no-ops.
Undo == Live /\ Handled("undo", handleUndo(World))

Redo == Live /\ Handled("redo", handleRedo(World))

Reset(maxLen) == Live /\ CanPush(World, maxLen) /\ Handled("reset", handleReset(World))

RotateButton(maxLen) ==
    /\ Live /\ CanPush(World, maxLen)
    /\ Handled("rotate", [handleRotate(World) EXCEPT !.activeTool = "rotate"])

FilterButton(maxLen) ==
    /\ Live /\ CanPush(World, maxLen)
    /\ Handled("filter", [handleFilter(World) EXCEPT !.activeTool = "filter"])

SelectTool(T) ==
    /\ Live
    /\ \E t \in T : Handled("selectTool", [World EXCEPT !.activeTool = t])

DrawButton ==
    /\ Live
    /\ Handled("drawButton", [World EXCEPT !.activeTool = IF @ = "draw" THEN "none" ELSE "draw"])

ResizeWidthChange(V) ==
    /\ Live /\ activeTool = "resize"
    /\ \E val \in V : Handled("resizeWidthChange", resizeWidthChange(World, val))

ResizeHeightChange(V) ==
    /\ Live /\ activeTool = "resize"
    /\ \E val \in V : Handled("resizeHeightChange", resizeHeightChange(World, val))

ToggleMaintainRatio ==
    /\ Live /\ activeTool = "resize"
    /\ Handled("toggleMaintainRatio", [World EXCEPT !.maintainRatio = ~@])

ResizeApply(maxLen) ==
    /\ Live /\ activeTool = "resize" /\ CanPush(World, maxLen)
    /\ Handled("resizeApply", handleResizeApply(World))

ResizeCancel ==
    /\ Live /\ activeTool = "resize"
    /\ Handled("resizeCancel", [World EXCEPT !.activeTool = "none"])

SelectCropRatio(R) ==
    /\ Live /\ activeTool = "crop"
    /\ \E r \in R : Handled("selectCropRatio", [World EXCEPT !.cropRatio = r])

CropApply(maxLen) ==
    /\ Live /\ activeTool = "crop" /\ CanPush(World, maxLen)
    /\ \E outcome \in CropOutcomes : Handled("cropApply", handleCropApply(World, outcome))

CropCancel ==
    /\ Live /\ activeTool = "crop"
    /\ Handled("cropCancel", [World EXCEPT !.cropRatio = "custom", !.cropBox = ZeroBox,
                             !.activeTool = "none"])

EditorMouseDown(P) ==
    /\ Live
    /\ activeTool = "text" => Len(textObjects) < MaxTexts
    /\ \E p \in P :
          \E n \in TextRenders(World, handleEditorMouseDown(World, p)) :
              HandledAt("editorMouseDown", p, n)

\* The crop box and its handles are rendered while the crop tool is active
\* in custom mode and the box has a width.
CropBoxMouseDown(T, P) ==
    /\ Live /\ activeTool = "crop" /\ cropRatio = "custom"
    /\ cropBox.width # RInt(0)
    /\ \E type \in T, p \in P : Handled("cropBoxMouseDown", handleCropBoxMouseDown(World, type, p))

EditorMouseMove(P) ==
    /\ Live
    /\ \E p \in P : HandledAt("editorMouseMove", p, handleEditorMouseMove(World, p))

EditorMouseUp == Live /\ Handled("editorMouseUp", handleEditorMouseUp(World))

SetDrawMode ==
    /\ Live /\ activeTool = "draw"
    /\ \E m \in {"free", "line"} : Handled("setDrawMode", [World EXCEPT !.drawMode = m])

\* Canvas events reach the canvas only while the draw tool is active (it is
\* pointer-events-none otherwise); mousemove and mouseup then bubble to the
\* editor area's handlers, which run in the same render's closures.
CanvasMouseDown(P, maxStrokes) ==
    /\ Live /\ activeTool = "draw"
    /\ Len(currentState.drawings) < maxStrokes
    /\ \E p \in P :
          HandledAt("canvasMouseDown", p,
                    handleEditorMouseDown(handleCanvasMouseDown(World, p), p))

CanvasMouseMove(P) ==
    /\ Live /\ activeTool = "draw"
    /\ \A i \in 1..Len(currentState.drawings) :
          currentState.drawings[i].mode = "free"
              => Len(currentState.drawings[i].points) < MaxPoints
    /\ \E p \in P :
          LET n == handleCanvasMouseMove(World, p)
          IN  HandledAt("canvasMouseMove", p,
                        [n EXCEPT !.cropBox = handleEditorMouseMove(World, p).cropBox])

CanvasMouseUp(P, maxLen) ==
    /\ Live /\ activeTool = "draw" /\ CanPush(World, maxLen)
    /\ \E p \in P :
          LET n == handleCanvasMouseUp(World, p)
          IN  HandledAt("canvasMouseUp", p,
                        [n EXCEPT !.dragSession = NoDrag, !.isCreatingCrop = FALSE])

\* A millisecond passes.
Tick ==
    /\ now < MaxClock
    /\ Did("tick", [World EXCEPT !.now = @ + 1])

\* The user types in the focused input.
TextChange(V) ==
    /\ Live /\ InputRendered(World) /\ inputFocused
    /\ \E val \in V \ {textObjects[EditedIndex(World)].text} :
          Handled("textChange", textInputChange(World, EditedIndex(World), val))

\* The input gets the focus back: the user clicks into it, or the focus
\* timer of the creation click (setTimeout 50) runs.
TextFocus ==
    /\ Live /\ InputRendered(World) /\ ~inputFocused
    /\ Handled("textFocus", [World EXCEPT !.inputFocused = TRUE])

\* The focused input loses the focus.
TextBlur ==
    /\ Live /\ InputRendered(World) /\ inputFocused
    /\ Len(blurTimers) < MaxTimers
    /\ Handled("textBlur", textInputBlur(World, EditedIndex(World)))

\* A key is pressed in the focused input; the step is named after the key.
TextKeyDown(K) ==
    /\ Live /\ InputRendered(World) /\ inputFocused
    /\ \E key \in K :
          \E n \in TextRenders(World, textInputKeyDown(World, EditedIndex(World), key)) :
              \E c \in BOOLEAN :
                  /\ Becomes(Render(World, n, c))
                  /\ lastOp' = [name |-> key, historyIndex |-> historyIndex,
                                length |-> Len(history),
                                textObj |-> textObjects[EditedIndex(World)]]

\* The user clicks a text overlay that is not in edit mode.
TextClick ==
    /\ Live /\ ~inputFocused
    /\ \E i \in 1..Len(textObjects) :
          /\ ~IsEditing(World, i)
          /\ \E n \in TextRenders(World, textClick(World, i)) : Handled("textClick", n)

\* The user deletes a text overlay that is not in edit mode.
TextDelete ==
    /\ Live /\ ~inputFocused
    /\ \E i \in 1..Len(textObjects) :
          /\ ~IsEditing(World, i)
          /\ \E n \in TextRenders(World, textDelete(World, i)) : Handled("textDelete", n)

\* The oldest blur timer runs (all have the same delay).
BlurTimerFires ==
    /\ ~crashed /\ ~EffectPending
    /\ blurTimers # <<>>
    /\ LET n0 == BlurCleanup([World EXCEPT !.blurTimers = Tail(@)], Head(blurTimers))
       IN  \E n \in TextRenders(World, n0) : \E c \in BOOLEAN :
               /\ Becomes(Render(World, n, c))
               /\ lastOp' = [name |-> "blurCleanup", historyIndex |-> historyIndex,
                             length |-> Len(history), timer |-> Head(blurTimers)]

\* The sub-toolbars of the draw tool and of the text tool.
SetDrawColor(C) ==
    /\ Live /\ activeTool = "draw"
    /\ \E color \in C \ {drawColor} : Handled("setDrawColor", setDrawColor(World, color))

SetBrushSize(Z) ==
    /\ Live /\ activeTool = "draw"
    /\ \E size \in Z \ {brushSize} : Handled("setBrushSize", setBrushSize(World, size))

SetTextStyle(K) ==
    /\ Live /\ activeTool = "text"
    /\ \E kind \in K :
          /\ setTextStyle(World, kind) # World
          /\ Handled("setTextStyle", setTextStyle(World, kind))

\* The save button; getContext('2d') gives a context or null.
Save(maxSaves) ==
    /\ Live /\ saveCount < maxSaves
    /\ \E ctx \in BOOLEAN : Handled("save", handleSave(World, ctx))

\* An Image of handleSave finishes loading, whatever the modal shows by then.
SaveImageLoaded ==
    /\ ~EffectPending
    /\ \E k \in 1..Len(saveDecodes) : Handled("saveImageLoaded", saveImageLoaded(World, k))

SaveImageFailed ==
    /\ ~EffectPending
    /\ \E k \in 1..Len(saveDecodes) : Handled("saveImageFailed", saveImageFailed(World, k))

\* No pointer gesture is in progress.
Idle == dragSession = NoDrag /\ ~isDrawing

\* ---------------------------------------------------------- specifications
\* The history manager across editing sessions: the modal is opened and
\* closed at any time, with any source image, and the history is driven by
\* rotate, filter, reset, undo and redo.
Next ==
    \/ DimensionsEffect
    \/ Open
    \/ Close
    \/ SetImageUrl
    \/ ImageLoad
    \/ Undo
    \/ Redo
    \/ Reset(MaxHist)
    \/ RotateButton(MaxHist)
    \/ FilterButton(MaxHist)

Spec == Init /\ [][Next]_vars

\* One session with long histories of rotations and filters.
NextRotate ==
    \/ DimensionsEffect
    \/ Open
    \/ ImageLoad
    \/ Undo
    \/ Redo
    \/ RotateButton(MaxRotate)
    \/ FilterButton(MaxRotate)

SpecRotate == Init /\ [][NextRotate]_vars

\* One session with the crop tool: preset and custom crops, the crop box
\* drawn from PointA to a box of 0.5%, 1% or 50% of the container.
NextCrop ==
    \/ DimensionsEffect
    \/ Open
    \/ ImageLoad
    \/ Undo
    \/ Redo
    \/ SelectTool({"crop"})
    \/ SelectCropRatio({"custom", "square"})
    \/ CropApply(MaxCrop)
    \/ CropCancel
    \/ EditorMouseDown({PointA})
    \/ EditorMouseMove({PointB, PointC, PointD})
    \/ EditorMouseUp

SpecCrop == Init /\ [][NextCrop]_vars

\* One session with every operation that writes the history.  The toolbar
\* is used between pointer gestures, not during one.
NextAll ==
    \/ DimensionsEffect
    \/ Open
    \/ ImageLoad
    \/ (Idle /\ Undo)
    \/ (Idle /\ Redo)
    \/ (Idle /\ Reset(MaxHist))
    \/ (Idle /\ RotateButton(MaxHist))
    \/ (Idle /\ FilterButton(MaxHist))
    \/ (Idle /\ SelectTool({"resize", "crop"}))
    \/ (Idle /\ DrawButton)
    \/ ResizeApply(MaxHist)
    \/ SelectCropRatio({"square"})
    \/ CropApply(MaxHist)
    \/ CanvasMouseDown({PointA}, MaxStrokes)
    \/ CanvasMouseUp({PointD}, MaxHist)

SpecAll == Init /\ [][NextAll]_vars

\* ------------------------------------------------------------------ claims
\* The steps of Spec that push a snapshot.
PushOps == {"reset", "rotate", "filter"}

\* C1: push(state) truncates every entry after the cursor, appends the new
\* state and moves the cursor to the new tip: after a push from cursor i the
\* history is the old history[0..i] followed by the new state, historyIndex
\* is i + 1 = length - 1 and currentState is the pushed state.
C1_PushContract ==
    [][lastOp'.name \in PushOps =>
          /\ history' = Append(Slice0(history, historyIndex + 1), history'[Len(history')])
          /\ historyIndex' = historyIndex + 1
          /\ historyIndex' = Len(history') - 1
          /\ currentState' = history'[Len(history')]]_vars

C4_CursorInRange ==
    Len(history) > 0 => 0 <= historyIndex /\ historyIndex < Len(history)

C4_Witness ==
    /\ Len(history) = 3
    /\ historyIndex = 1
    /\ history[2].mode = "crop"
    /\ history[3].drawings # <<>>

\* C5: a push performed after undos discards the redo states: right after
\* it the history is the entries up to the old cursor followed by the new
\* state, the cursor is at the tip and redo is a no-op.
C5_PushDiscardsRedo ==
    [][(lastOp'.name \in PushOps /\ historyIndex < Len(history) - 1) =>
          /\ Len(history') = historyIndex + 2
          /\ \A k \in 1..(historyIndex + 1) : history'[k] = history[k]
          /\ history'[historyIndex + 2] = currentState'
          /\ historyIndex' = Len(history') - 1
          /\ handleRedo(World') = World']_vars

C5_Witness ==
    /\ lastOp.name \in PushOps
    /\ lastOp.historyIndex = 0
    /\ lastOp.length = 3
    /\ Len(history) = 2
    /\ historyIndex = 1

\* The state w once the dimension effect, if due, has run.
Settled(w) ==
    IF w.effectDeps # <<w.isOpen, w.currentState.width>>
    THEN [EnsureDimensions(w) EXCEPT !.effectDeps = <<w.isOpen, w.currentState.width>>]
    ELSE w

\* C6: redo immediately after an effective undo (cursor > 0) restores the
\* state before the undo: historyIndex, history, currentState and the
\* displayed image are what they were before the undo.
C6_RedoRestores ==
    (Live /\ historyIndex > 0) =>
        \A c1, c2 \in BOOLEAN :
            LET undone == Settled(Render(World, handleUndo(World), c1))
                redone == Settled(Render(undone, handleRedo(undone), c2))
            IN  /\ redone.historyIndex = historyIndex
                /\ redone.history = history
                /\ redone.currentState = currentState
                /\ redone.currentImage = currentImage

\* C7: reset yields a current state with rotation 0, filter none, empty
\* drawings and imageSrc equal to the supplied imageUrl; it does so by a
\* push, so the history is the entries up to the cursor followed by that
\* state, and an undo right after reset returns the pre-reset state.
C7_ResetContract ==
    [][lastOp'.name = "reset" =>
          /\ currentState'.rotation = 0
          /\ currentState'.filter = "none"
          /\ currentState'.drawings = <<>>
          /\ currentState'.imageSrc = imageUrl
          /\ history' = Append(Slice0(history, historyIndex + 1), currentState')
          /\ Len(history') = historyIndex + 2
          /\ historyIndex' = Len(history') - 1
          /\ handleUndo(World').currentState = currentState]_vars

\* C8: whenever the editor is opened, history becomes exactly one baseline
\* entry (rotation 0, filter none, no drawings, imageSrc the supplied
\* imageUrl), historyIndex is 0, currentState is that entry and no tool is
\* active, whatever the previous session left.
C8_OpenReseeds ==
    lastOp.name = "open" =>
        /\ history = <<InitialState(imageUrl)>>
        /\ historyIndex = 0
        /\ currentState = InitialState(imageUrl)
        /\ activeTool = "none"

Rotations == {0, 90, 180, 270}

\* C9: the rotation of every snapshot is one of 0, 90, 180, 270; each rotate
\* pushes exactly one entry whose rotation is (previous + 90) mod 360 with
\* every other field unchanged, and four rotates in a row return the
\* rotation to its starting value.
C9_Rotation ==
    /\ [](/\ currentState.rotation \in Rotations
          /\ \A k \in 1..Len(history) : history[k].rotation \in Rotations
          /\ handleRotate(handleRotate(handleRotate(handleRotate(World))))
                 .currentState.rotation = currentState.rotation)
    /\ [][lastOp'.name = "rotate" =>
            /\ history' = Append(Slice0(history, historyIndex + 1),
                    [currentState EXCEPT !.rotation = (currentState.rotation + 90) % 360])
            /\ currentState' = history'[Len(history')]]_vars

C9_Witness ==
    /\ lastOp.name = "rotate"
    /\ Len(history) = 5
    /\ historyIndex = 4
    /\ \A k \in 1..5 : history[k].rotation = ((k - 1) * 90) % 360
    /\ currentState.rotation = 0

\* C10: a custom crop apply is rejected when the crop box is under 1% wide
\* or high, or when the pixel rectangle it selects is under 10 pixels on an
\* axis: history, historyIndex, currentState, the displayed image and the
\* crop box are unchanged and the crop tool stays active.
C10_SmallCropRejected ==
    [][(/\ lastOp'.name = "cropApply"
        /\ cropRatio = "custom"
        /\ LET width == IF Truthy(currentState.width) THEN currentState.width[1]
                        ELSE ImgNatural(World)[1]
               height == IF Truthy(currentState.height) THEN currentState.height[1]
                         ELSE ImgNatural(World)[2]
           IN  \/ RLt(cropBox.width, RInt(1))
               \/ RLt(cropBox.height, RInt(1))
               \/ RLt(Rat(width * cropBox.width[1], 100 * cropBox.width[2]), RInt(10))
               \/ RLt(Rat(height * cropBox.height[1], 100 * cropBox.height[2]), RInt(10)))
       => /\ UNCHANGED <<history, historyIndex, currentState, currentImage, cropBox>>
          /\ activeTool' = "crop"]_vars

C10_Witness ==
    /\ lastOp.name = "cropApply"
    /\ cropRatio = "custom"
    /\ cropBox = [left |-> RInt(10), top |-> RInt(10),
                  width |-> Rat(1, 2), height |-> Rat(1, 2)]
    /\ Truthy(currentState.width)
    /\ activeTool = "crop"

\* One session with preset-ratio crops of every ratio.
NextPreset ==
    \/ DimensionsEffect
    \/ Open
    \/ ImageLoad
    \/ Undo
    \/ Redo
    \/ SelectTool({"crop"})
    \/ SelectCropRatio(CropRatios \ {"custom"})
    \/ CropApply(MaxPreset)

SpecPreset == Init /\ [][NextPreset]_vars

\* The logical width and height a crop starts from.
CropWidth == IF Truthy(currentState.width) THEN currentState.width[1] ELSE ImgNatural(World)[1]

CropHeight == IF Truthy(currentState.height) THEN currentState.height[1] ELSE ImgNatural(World)[2]

\* n is x rounded to the nearest integer, halves upwards.
IsRounded(n, x) == RLe(RSub(RInt(n), Rat(1, 2)), x) /\ RLt(x, RAdd(RInt(n), Rat(1, 2)))

\* C11: a preset-ratio crop of a w x h source with target ratio r takes the
\* largest centred rectangle of ratio r: if w/h > r the output is
\* round(h*r) x h from x offset (w - h*r)/2, otherwise w x round(w/r) from
\* y offset (h - w/r)/2; the output exceeds the source on neither axis.
C11_PresetCrop ==
    [][(lastOp'.name = "cropApply" /\ cropRatio # "custom" /\ history' # history) =>
          LET w == CropWidth
              h == CropHeight
              r == ratios[cropRatio]
              e == history'[Len(history')]
              sx == e.imageSrc[3]
              sy == e.imageSrc[4]
              sw == e.imageSrc[5]
              sh == e.imageSrc[6]
          IN  /\ IF RLt(r, Rat(w, h))
                 THEN /\ IsRounded(e.width[1], RMul(RInt(h), r))
                      /\ e.height[1] = h
                      /\ sx = RDiv(RSub(RInt(w), RMul(RInt(h), r)), RInt(2))
                      /\ sy = RInt(0)
                 ELSE /\ e.width[1] = w
                      /\ IsRounded(e.height[1], RDiv(RInt(w), r))
                      /\ sx = RInt(0)
                      /\ sy = RDiv(RSub(RInt(h), RDiv(RInt(w), r)), RInt(2))
              /\ e.width[1] <= w /\ e.height[1] <= h
              /\ RDiv(sw, sh) = r
              /\ sw = RInt(w) \/ sh = RInt(h)
              /\ RLe(RInt(0), sx) /\ RAdd(RAdd(sx, sx), sw) = RInt(w)
              /\ RLe(RInt(0), sy) /\ RAdd(RAdd(sy, sy), sh) = RInt(h)
              /\ e.imageSrc[7] = e.width[1] /\ e.imageSrc[8] = e.height[1]]_vars

C11_Witness ==
    /\ lastOp.name = "cropApply"
    /\ cropRatio = "square"
    /\ Len(history) = 2
    /\ historyIndex = 1
    /\ history[2].width = <<1333>>
    /\ history[2].height = <<1333>>
    /\ history[2].imageSrc[2] = <<"a.png">>
    /\ history[2].imageSrc[3] = Rat(667, 2)

\* C12: a successful crop apply pushes exactly one history entry whose
\* width and height are the rounded computed rectangle, mode is crop and
\* imageSrc is the new raster, with rotation, filter and drawings carried
\* over; the raster becomes the displayed image, the ratio-lock ratio
\* becomes newWidth / newHeight, the crop box becomes the zero box and the
\* tool becomes inactive.
C12_CropCommits ==
    [][(lastOp'.name = "cropApply" /\ activeTool' = "none" /\ ~alerted') =>
          LET e == history'[Len(history')]
              raster == e.imageSrc
          IN  /\ history' = Append(Slice0(history, historyIndex + 1), e)
              /\ historyIndex' = Len(history') - 1
              /\ currentState' = e
              /\ e = [currentState EXCEPT !.width = e.width, !.height = e.height,
                                          !.mode = "crop", !.imageSrc = raster]
              /\ raster[1] = "crop"
              /\ raster[2] = (IF imgComplete THEN currentImage ELSE Blank)
              /\ cropRatio = "custom" =>
                    /\ raster[3] = RDiv(RMul(RInt(CropWidth), cropBox.left), RInt(100))
                    /\ raster[4] = RDiv(RMul(RInt(CropHeight), cropBox.top), RInt(100))
                    /\ raster[5] = RDiv(RMul(RInt(CropWidth), cropBox.width), RInt(100))
                    /\ raster[6] = RDiv(RMul(RInt(CropHeight), cropBox.height), RInt(100))
              /\ IsRounded(e.width[1], raster[5]) /\ raster[7] = e.width[1]
              /\ IsRounded(e.height[1], raster[6]) /\ raster[8] = e.height[1]
              /\ currentImage' = raster
              /\ originalRatio' = Rat(e.width[1], e.height[1])
              /\ cropBox' = ZeroBox]_vars

C12_Witness ==
    /\ lastOp.name = "cropApply"
    /\ cropRatio = "custom"
    /\ activeTool = "none"
    /\ Len(history) = 2
    /\ historyIndex = 1
    /\ history[2].mode = "crop"
    /\ history[2].width = <<1000>>
    /\ history[2].height = <<667>>
    /\ currentImage = history[2].imageSrc
    /\ currentImage[2] = <<"a.png">>
    /\ cropBox = ZeroBox

\* C13: if producing or encoding the cropped raster throws, the crop
\* commits no history entry: history, historyIndex, currentState and the
\* displayed image are unchanged, an alert is raised and the tool becomes
\* inactive.
C13_CropThrows ==
    /\ []((Live /\ activeTool = "crop" /\ handleCropApply(World, "ok") # World) =>
            LET n == handleCropApply(World, "throw")
            IN  /\ n.alerted
                /\ n.activeTool = "none"
                /\ n.history = history
                /\ n.historyIndex = historyIndex
                /\ n.currentState = currentState
                /\ n.currentImage = currentImage)
    /\ [][(lastOp'.name = "cropApply" /\ alerted') =>
            /\ UNCHANGED <<history, historyIndex, currentState, currentImage>>
            /\ activeTool' = "none"]_vars

C13_Witness ==
    /\ lastOp.name = "cropApply"
    /\ alerted
    /\ activeTool = "none"
    /\ cropRatio = "custom"
    /\ cropBox.width = RInt(50)
    /\ Len(history) = 1
    /\ currentImage = imageUrl

\* One session with the resize tool.
NextResize ==
    \/ DimensionsEffect
    \/ Open
    \/ ImageLoad
    \/ Undo
    \/ Redo
    \/ SelectTool({"resize"})
    \/ ResizeWidthChange(WidthInputs)
    \/ ResizeHeightChange(HeightInputs)
    \/ ToggleMaintainRatio
    \/ ResizeApply(MaxResize)
    \/ ResizeCancel

SpecResize == Init /\ [][NextResize]_vars

NextDraw ==
    \/ DimensionsEffect
    \/ Open
    \/ ImageLoad
    \/ (Idle /\ Undo)
    \/ (Idle /\ Redo)
    \/ (Idle /\ DrawButton)
    \/ (Idle /\ SetDrawMode)
    \/ (Idle /\ CanvasMouseDown({PointA}, MaxDrawStrokes))
    \/ CanvasMouseMove({PointC, PointD})
    \/ CanvasMouseUp({PointD}, MaxDraw)

SpecDraw == Init /\ [][NextDraw]_vars

\* C15: a freehand gesture (pointer-down, k pointer-moves, pointer-up with
\* the draw tool in free mode) commits exactly one new stroke of mode free
\* whose points are the down point followed by the move points in event
\* order; the stroke is in the live drawings from pointer-down, and history
\* receives exactly one push, at pointer-up, none at pointer-down or
\* pointer-move.
C15_FreehandGesture ==
    [][drawMode = "free" =>
        /\ lastOp'.name = "canvasMouseDown" =>
              /\ currentState' = [currentState EXCEPT !.drawings = Append(@,
                    [mode |-> "free", color |-> drawColor, size |-> brushSize,
                     points |-> <<CanvasPoint(World, lastOp'.point)>>])]
              /\ isDrawing'
              /\ UNCHANGED <<history, historyIndex>>
        /\ (lastOp'.name = "canvasMouseMove" /\ isDrawing) =>
              /\ LET n == Len(currentState.drawings)
                 IN  currentState' = [currentState EXCEPT !.drawings[n].points =
                                         Append(@, CanvasPoint(World, lastOp'.point))]
              /\ currentState.drawings[Len(currentState.drawings)].mode = "free"
              /\ isDrawing'
              /\ UNCHANGED <<history, historyIndex>>
        /\ (lastOp'.name = "canvasMouseUp" /\ isDrawing) =>
              /\ history' = Append(Slice0(history, historyIndex + 1), currentState)
              /\ historyIndex' = Len(history') - 1
              /\ currentState' = currentState
              /\ ~isDrawing']_vars

C15_Witness ==
    /\ lastOp.name = "canvasMouseUp"
    /\ ~isDrawing
    /\ Len(history) = 2
    /\ historyIndex = 1
    /\ history[1].drawings = <<>>
    /\ Len(history[2].drawings) = 1
    /\ history[2].drawings[1].mode = "free"
    /\ history[2].width = <<2000>>
    /\ Len(history[2].drawings[1].points) = 3
    /\ history[2].drawings[1].points =
          <<CanvasPoint(World, PointA), CanvasPoint(World, PointC), CanvasPoint(World, PointD)>>

\* C16: in line mode pointer-down records only a start point and
\* pointer-moves change nothing: the live drawings and history are
\* unchanged until pointer-up, which adds exactly one stroke of mode line
\* (start the down point, end the up point) and pushes exactly one history
\* entry in the same step.
C16_LineGesture ==
    [][drawMode = "line" =>
        /\ lastOp'.name = "canvasMouseDown" =>
              /\ startPoint' = CanvasPoint(World, lastOp'.point)
              /\ isDrawing'
              /\ UNCHANGED <<currentState, history, historyIndex>>
        /\ (lastOp'.name = "canvasMouseMove" /\ isDrawing) =>
              UNCHANGED <<currentState, history, historyIndex, startPoint, isDrawing>>
        /\ (lastOp'.name = "canvasMouseUp" /\ isDrawing) =>
              /\ currentState' = [currentState EXCEPT !.drawings = Append(@,
                    [mode |-> "line", color |-> drawColor, size |-> brushSize,
                     start |-> startPoint, end |-> CanvasPoint(World, lastOp'.point)])]
              /\ startPoint # <<>>
              /\ history' = Append(Slice0(history, historyIndex + 1), currentState')
              /\ historyIndex' = Len(history') - 1
              /\ ~isDrawing']_vars

C16_Witness ==
    /\ lastOp.name = "canvasMouseUp"
    /\ lastOp.length = 1
    /\ drawMode = "line"
    /\ ~isDrawing
    /\ Len(history) = 2
    /\ historyIndex = 1
    /\ history[1].drawings = <<>>
    /\ Len(history[2].drawings) = 1
    /\ history[2].drawings[1].mode = "line"
    /\ history[2].width = <<2000>>
    /\ history[2].drawings[1].start = CanvasPoint(World, PointA)
    /\ history[2].drawings[1].end = CanvasPoint(World, PointD)

\* One session with the text tool.
NextText ==
    \/ DimensionsEffect
    \/ Open
    \/ ImageLoad
    \/ Tick
    \/ SelectTool({"text"})
    \/ EditorMouseDown({PointE})
    \/ TextChange(TextValues)
    \/ TextFocus
    \/ TextBlur
    \/ TextKeyDown({"Enter", "Escape"})
    \/ TextClick
    \/ TextDelete
    \/ BlurTimerFires

SpecText == Init /\ [][NextText]_vars

\* Text overlays next to the history buttons.
NextTextHistory ==
    \/ DimensionsEffect
    \/ Open
    \/ ImageLoad
    \/ SelectTool({"text"})
    \/ EditorMouseDown({PointA})
    \/ TextChange({<<"a">>})
    \/ TextBlur
    \/ TextKeyDown({"Escape"})
    \/ TextClick
    \/ TextDelete
    \/ BlurTimerFires
    \/ Undo
    \/ Redo
    \/ Reset(MaxTextHist)
    \/ RotateButton(MaxTextHist)

SpecTextHistory == Init /\ [][NextTextHistory]_vars

\* The position v as a percentage of the span that starts at origin and is
\* extent long, kept between 0 and 100.
PercentWithin(v, origin, extent) ==
    LET raw == Rat(100 * (v - origin), extent)
    IN  IF RLt(raw, RInt(0)) THEN RInt(0)
        ELSE IF RLt(RInt(100), raw) THEN RInt(100) ELSE raw

\* C17: a pointer-down on the editor area while the text tool is active adds
\* exactly one text object, at the end of the collection, with empty text
\* and with x and y the click position as percentages of the image
\* container kept within 0..100, and makes it the object in edit mode; the
\* history, the cursor, the current state and the crop drag are untouched.
C17_TextCreated ==
    [][(lastOp'.name = "editorMouseDown" /\ activeTool = "text") =>
        /\ Len(textObjects') = Len(textObjects) + 1
        /\ SubSeq(textObjects', 1, Len(textObjects)) = textObjects
        /\ LET created == textObjects'[Len(textObjects')]
           IN  /\ created.text = <<>>
               /\ created.x = PercentWithin(lastOp'.point[1], Rect.left, Rect.width)
               /\ created.y = PercentWithin(lastOp'.point[2], Rect.top, Rect.height)
               /\ editingTextId' = <<created.id>>
        /\ UNCHANGED <<history, historyIndex, currentState>>
        /\ UNCHANGED <<dragSession, isCreatingCrop, cropBox>>]_vars

C17_Witness ==
    /\ lastOp.name = "editorMouseDown"
    /\ activeTool = "text"
    /\ lastOp.point = PointE
    /\ Len(textObjects) = 2
    /\ textObjects[2].x = RInt(10)
    /\ textObjects[2].y = RInt(100)
    /\ editingTextId = <<textObjects[2].id>>

\* The text is empty or consists of blanks only.
IsBlank(text) == \A k \in 1..Len(text) : text[k] = " "

\* No object of the collection objs has the id.
Absent(objs, id) == \A k \in 1..Len(objs) : objs[k].id # id

\* C18: when the cleanup of a blur runs, the object that lost the focus is
\* removed from the collection if its text was empty or blank, the
\* collection is left as it is otherwise, and in both cases no object is
\* being edited afterwards.
C18_BlurCleanup ==
    [][lastOp'.name = "blurCleanup" =>
        LET blurred == lastOp'.timer.textObj
        IN  /\ IsBlank(blurred.text) => Absent(textObjects', blurred.id)
            /\ ~IsBlank(blurred.text) => textObjects' = textObjects
            /\ editingTextId' = <<>>]_vars

C18_Witness ==
    /\ lastOp.name = "blurCleanup"
    /\ lastOp.timer.textObj.text = <<" ">>
    /\ lastOp.timer.textObjects = <<lastOp.timer.textObj>>
    /\ textObjects = <<>>
    /\ editingTextId = <<>>

\* C18 as the specification states it: only an object whose text is the
\* empty string is removed, every other one stays.
C18_AsStated ==
    [][lastOp'.name = "blurCleanup" =>
        LET blurred == lastOp'.timer.textObj
        IN  /\ blurred.text = <<>> => Absent(textObjects', blurred.id)
            /\ blurred.text # <<>> => textObjects' = textObjects
            /\ editingTextId' = <<>>]_vars

\* C19: Escape in the input of a text object removes the object, whatever
\* its text, and ends edit mode; and the object is still absent after the
\* blur cleanup that runs next.
C19_EscapeDiscards ==
    /\ [][lastOp'.name = "Escape" =>
            /\ Absent(textObjects', lastOp'.textObj.id)
            /\ editingTextId' = <<>>]_vars
    /\ [][(lastOp.name = "Escape" /\ lastOp'.name = "blurCleanup") =>
            Absent(textObjects', lastOp.textObj.id)]_vars

\* The steps that move or extend the history, and the steps that create,
\* edit or delete a text object.
HistorySteps == {"undo", "redo", "reset", "rotate"}
TextSteps == {"editorMouseDown", "textChange", "textBlur", "textClick",
              "textDelete", "Escape", "blurCleanup"}

\* C20: undo, redo, reset and every push leave the collection of text
\* objects as it is, and every step that creates, edits or deletes a text
\* object leaves history and historyIndex as they are.
C20_TextOutsideHistory ==
    [][/\ lastOp'.name \in HistorySteps => textObjects' = textObjects
       /\ lastOp'.name \in TextSteps => UNCHANGED <<history, historyIndex>>]_vars

C20_Witness ==
    /\ lastOp.name = "undo"
    /\ lastOp.historyIndex = 1
    /\ historyIndex = 0
    /\ Len(history) = 2
    /\ Len(textObjects) = 2
    /\ textObjects[1].text = <<"a">>

\* C22: apart from the re-seed of an open, a step either leaves the history
\* as it is or truncates it after the cursor and appends one entry; no
\* entry stored at an index that stays is replaced or edited.
C22_HistoryOnlyPushed ==
    [][lastOp'.name # "open" =>
        \/ history' = history
        \/ /\ history' # <<>>
           /\ history' = Append(Slice0(history, historyIndex + 1),
                                history'[Len(history')])]_vars

\* One session with the crop tool in which the reset button is also
\* activated from the keyboard, whether or not a pointer button is held.
NextCropReset ==
    \/ DimensionsEffect
    \/ Open
    \/ ImageLoad
    \/ SelectTool({"crop"})
    \/ EditorMouseDown({PointA})
    \/ EditorMouseMove({PointC, PointD})
    \/ EditorMouseUp
    \/ Reset(MaxCrop)

SpecCropReset == Init /\ [][NextCropReset]_vars

\* C23: right after a reset the crop box is the zero box and no drag
\* session is pending.
C23_ResetClearsTransient ==
    [][lastOp'.name = "reset" =>
        /\ cropBox' = ZeroBox
        /\ dragSession' = NoDrag]_vars

\* C25: resize cancel makes the tool inactive and leaves history, the
\* cursor and the current state as they are; and when resize is activated
\* right after a cancel, the width and height fields hold the dimensions of
\* the current snapshot, not the abandoned values.
C25_ResizeCancel ==
    /\ [][lastOp'.name = "resizeCancel" =>
            /\ activeTool' = "none"
            /\ UNCHANGED <<history, historyIndex, currentState>>]_vars
    /\ [][(/\ lastOp.name = "resizeCancel"
           /\ lastOp'.name = "selectTool" /\ activeTool' = "resize"
           /\ Truthy(currentState'.width) /\ Truthy(currentState'.height)) =>
            /\ ParseInt(resizeWidth') = currentState'.width
            /\ ParseInt(resizeHeight') = currentState'.height]_vars

\* The resize fields with the ratio lock switched on and off.
NextRatio ==
    \/ DimensionsEffect
    \/ Open
    \/ ImageLoad
    \/ SelectTool({"resize"})
    \/ ResizeWidthChange(RatioWidthInputs)
    \/ ResizeHeightChange(RatioHeightInputs)
    \/ ToggleMaintainRatio

SpecRatio == Init /\ [][NextRatio]_vars

\* The field holds the decimal numeral of x rounded to the nearest integer.
HoldsRounded(field, x) ==
    LET n == ParseInt(field)
    IN  n # <<>> /\ field = NumToString(n[1]) /\ IsRounded(n[1], x)

\* C26: with the ratio lock on, typing a width that parses as w sets the
\* height field to round(w / ratio) and typing a height that parses as h
\* sets the width field to round(h * ratio); with the lock off, or when the
\* typed value does not parse, the other field keeps its value.  The ratio
\* is the natural width over the natural height taken at image load.
C26_RatioLock ==
    [][/\ lastOp'.name = "resizeWidthChange" =>
            LET w == ParseInt(resizeWidth')
            IN  IF maintainRatio /\ w # <<>>
                THEN HoldsRounded(resizeHeight', RDiv(RInt(w[1]), originalRatio))
                ELSE resizeHeight' = resizeHeight
       /\ lastOp'.name = "resizeHeightChange" =>
            LET h == ParseInt(resizeHeight')
            IN  IF maintainRatio /\ h # <<>>
                THEN HoldsRounded(resizeWidth', RMul(RInt(h[1]), originalRatio))
                ELSE resizeWidth' = resizeWidth
       /\ lastOp'.name = "imageLoad" =>
            originalRatio' = Rat(NaturalSize(currentImage)[1], NaturalSize(currentImage)[2])]_vars

C26_Witness ==
    /\ lastOp.name = "resizeWidthChange"
    /\ maintainRatio
    /\ imgComplete
    /\ originalRatio = Rat(2000, 1333)
    /\ resizeWidth = <<"1", "0", "0", "0">>
    /\ resizeHeight = <<"6", "6", "7">>

\* Crop boxes drawn near the edges of the image and then dragged by the
\* box or by a side handle.
NextCropDrag ==
    \/ DimensionsEffect
    \/ Open
    \/ ImageLoad
    \/ SelectTool({"crop"})
    \/ (Idle /\ EditorMouseDown({PointF, PointK}))
    \/ (Idle /\ CropBoxMouseDown({"move", "right", "left"}, {PointG}))
    \/ EditorMouseMove({PointG, PointL})
    \/ EditorMouseUp

SpecCropDrag == Init /\ [][NextCropDrag]_vars

\* C27: the crop box lies inside the displayed image, whatever boxes were
\* created, moved and resized by their handles.
C27_BoxInside ==
    /\ RLe(RInt(0), cropBox.left)
    /\ RLe(RInt(0), cropBox.top)
    /\ RLe(RAdd(cropBox.left, cropBox.width), RInt(100))
    /\ RLe(RAdd(cropBox.top, cropBox.height), RInt(100))

\* C28: after a pointer-move of a handle drag the box is at least 5% wide
\* if the handle adjusts the left or the right edge, and at least 5% high
\* if it adjusts the top or the bottom edge.
C28_HandleKeepsSize ==
    [][(lastOp'.name = "editorMouseMove" /\ dragSession # NoDrag) =>
        /\ (Includes(dragSession.type, "left") \/ Includes(dragSession.type, "right")) =>
              RLe(RInt(5), cropBox'.width)
        /\ (Includes(dragSession.type, "top") \/ Includes(dragSession.type, "bottom")) =>
              RLe(RInt(5), cropBox'.height)]_vars

\* Strokes and a text object made with one tool style, and the style changed
\* afterwards.
NextStyle ==
    \/ DimensionsEffect
    \/ Open
    \/ ImageLoad
    \/ (Idle /\ DrawButton)
    \/ (Idle /\ SelectTool({"text"}))
    \/ SetDrawColor({"#ff0000"})
    \/ SetBrushSize({4})
    \/ SetTextStyle({"bold", "size"})
    \/ (Idle /\ CanvasMouseDown({PointA}, MaxDrawStrokes))
    \/ CanvasMouseMove({PointC})
    \/ CanvasMouseUp({PointD}, MaxDraw)
    \/ (Idle /\ textObjects = <<>> /\ EditorMouseDown({PointE}))

SpecStyle == Init /\ [][NextStyle]_vars

\* The steps that change a tool style, and the pointer steps on the canvas.
StyleSteps == {"setDrawColor", "setBrushSize", "setTextStyle"}
CanvasSteps == {"canvasMouseDown", "canvasMouseMove", "canvasMouseUp"}

\* C29: a change of the brush colour or size, or of the text style, leaves
\* every stroke and every text object as it is, and the pointer steps that
\* follow keep the colour and size of the strokes that exist.
C29_StyleCopied ==
    [][/\ lastOp'.name \in StyleSteps =>
            UNCHANGED <<currentState, history, textObjects>>
       /\ lastOp'.name \in CanvasSteps =>
            /\ Len(currentState.drawings) <= Len(currentState'.drawings)
            /\ \A k \in 1..Len(currentState.drawings) :
                  /\ currentState'.drawings[k].color = currentState.drawings[k].color
                  /\ currentState'.drawings[k].size = currentState.drawings[k].size]_vars

C29_Witness ==
    /\ lastOp.name = "setTextStyle"
    /\ Len(currentState.drawings) = 2
    /\ currentState.drawings[1].color = "#00a9ff" /\ currentState.drawings[1].size = 12
    /\ currentState.drawings[2].color = "#ff0000" /\ currentState.drawings[2].size = 4
    /\ Len(textObjects) = 1
    /\ ~textObjects[1].bold /\ textObjects[1].size = 50 /\ textObjects[1].align = "left"
    /\ textBold /\ textSize = 24

\* Editing sessions with the crop tool and the text tool, the modal closed
\* and opened again between them.
NextSession ==
    \/ DimensionsEffect
    \/ Open
    \/ Close
    \/ ImageLoad
    \/ SelectTool({"crop", "text"})
    \/ SelectCropRatio({"square"})
    \/ (Idle /\ EditorMouseDown({PointE}))
    \/ EditorMouseMove({PointD})
    \/ EditorMouseUp
    \/ BlurTimerFires

SpecSession == Init /\ [][NextSession]_vars

\* C24: when the modal has just been opened, nothing of an earlier session
\* is left: there are no text objects, the crop box is the zero box, the
\* crop ratio is custom, no stroke is being drawn and no text is edited.
C24_OpenIsFresh ==
    lastOp.name = "open" =>
        /\ textObjects = <<>>
        /\ cropBox = ZeroBox
        /\ cropRatio = "custom"
        /\ ~isDrawing
        /\ editingTextId = <<>>

\* Saves between rotations, undos and redos, with a text object on top.
NextSave ==
    \/ DimensionsEffect
    \/ Open
    \/ ImageLoad
    \/ RotateButton(MaxSaveHist)
    \/ Undo
    \/ Redo
    \/ SelectTool({"text"})
    \/ (textObjects = <<>> /\ EditorMouseDown({PointE}))
    \/ Save(MaxSaves)
    \/ SaveImageLoaded
    \/ SaveImageFailed

SpecSave == Init /\ [][NextSave]_vars

\* The saves whose Image is loading, and the saves onSave was called for.
SavesDecoding == {saveDecodes[k].save : k \in 1..Len(saveDecodes)}
SavesReported == {onSaveCalls[k].save : k \in 1..Len(onSaveCalls)}

\* C21: onSave is called only when the Image of a save finishes loading,
\* once, with the composite that save encoded; a save whose Image fails is
\* dropped without a call; so every save is reported at most once, and only
\* saves that were invoked are reported.
C21_OnSaveOncePerSave ==
    /\ [](/\ SavesReported \subseteq 1..saveCount
          /\ SavesDecoding \subseteq 1..saveCount
          /\ SavesReported \cap SavesDecoding = {}
          /\ \A j, k \in 1..Len(onSaveCalls) :
                onSaveCalls[j].save = onSaveCalls[k].save => j = k)
    /\ [][/\ lastOp'.name = "saveImageLoaded" =>
               \E k \in 1..Len(saveDecodes) :
                   /\ saveDecodes' = RemoveAt(saveDecodes, k)
                   /\ onSaveCalls' = Append(onSaveCalls,
                          [save |-> saveDecodes[k].save,
                           artifact |-> Composite(saveDecodes[k])])
          /\ lastOp'.name = "saveImageFailed" =>
               /\ onSaveCalls' = onSaveCalls
               /\ SavesDecoding' \subseteq SavesDecoding /\ SavesDecoding' # SavesDecoding
          /\ lastOp'.name = "save" =>
               /\ onSaveCalls' = onSaveCalls
               /\ saveCount' = saveCount + 1
               /\ SavesDecoding' \subseteq SavesDecoding \cup {saveCount'}
          /\ lastOp'.name \notin {"saveImageLoaded", "saveImageFailed", "save"} =>
               UNCHANGED <<onSaveCalls, saveDecodes, saveCount>>]_vars

C21_Witness ==
    /\ saveCount = 2
    /\ saveDecodes = <<>>
    /\ Len(onSaveCalls) = 1
    /\ onSaveCalls[1].save = 2
    /\ lastOp.name = "saveImageFailed"

NextComposite ==
    \/ DimensionsEffect
    \/ Open
    \/ ImageLoad
    \/ (currentState.drawings = <<>> /\ textObjects = <<>> /\ RotateButton(MaxLayerHist))
    \/ (Idle /\ DrawButton)
    \/ (Idle /\ SetDrawMode)
    \/ (Idle /\ CanvasMouseDown({PointA}, MaxDrawStrokes))
    \/ CanvasMouseMove({PointC})
    \/ CanvasMouseUp({PointD}, MaxLayerHist)
    \/ (Idle /\ SelectTool({"text"}))
    \/ (Idle /\ textObjects = <<>> /\ EditorMouseDown({PointE}))
    \/ (Idle /\ Save(MaxLayerSaves))
    \/ SaveImageLoaded

SpecComposite == Init /\ [][NextComposite]_vars

\* C31: the artifact handed to onSave when the Image of a save has loaded
\* holds the layers in a fixed order: first the base image with the rotation
\* and the filter of the saved snapshot, then one stroke per entry of its
\* drawings in insertion order, then one text per text object in array
\* order; onSave receives the raster with all of these layers on it.
C31_LayerOrder ==
    [][lastOp'.name = "saveImageLoaded" =>
        \E k \in 1..Len(saveDecodes) :
            LET d == saveDecodes[k]
                nd == Len(d.currentState.drawings)
                nt == Len(d.textObjects)
                layers == onSaveCalls'[Len(onSaveCalls')].artifact.layers
            IN  /\ Len(onSaveCalls') = Len(onSaveCalls) + 1
                /\ Len(layers) = 1 + nd + nt
                /\ layers[1].layer = "image"
                /\ layers[1].image = d.image
                /\ layers[1].rotation = d.currentState.rotation
                /\ layers[1].filter = d.currentState.filter
                /\ \A j \in 1..nd :
                      /\ layers[1 + j].layer = "stroke"
                      /\ layers[1 + j].color = d.currentState.drawings[j].color
                      /\ layers[1 + j].size = d.currentState.drawings[j].size
                      /\ layers[1 + j].path =
                            (IF d.currentState.drawings[j].mode = "free"
                             THEN d.currentState.drawings[j].points
                             ELSE <<d.currentState.drawings[j].start,
                                    d.currentState.drawings[j].end>>)
                /\ \A j \in 1..nt :
                      /\ layers[1 + nd + j].layer = "text"
                      /\ layers[1 + nd + j].textObj = d.textObjects[j]]_vars

C31_Witness ==
    /\ lastOp.name = "saveImageLoaded"
    /\ Len(onSaveCalls) = 1
    /\ LET layers == onSaveCalls[1].artifact.layers
       IN  /\ Len(layers) = 4
           /\ layers[1].rotation = 90
           /\ layers[2].layer = "stroke" /\ Len(layers[2].path) = 3
           /\ layers[3].layer = "stroke" /\ Len(layers[3].path) = 2
           /\ layers[4].layer = "text"

\* One session in which the toolbar is also used from the keyboard while a
\* pointer gesture on the canvas is in progress, and the image may finish
\* loading at any moment.
NextGesture ==
    \/ DimensionsEffect
    \/ Open
    \/ ImageLoad
    \/ Undo
    \/ Redo
    \/ Reset(MaxGestureHist)
    \/ DrawButton
    \/ SetDrawMode
    \/ CanvasMouseDown({PointA}, MaxDrawStrokes)
    \/ CanvasMouseMove({PointC})
    \/ CanvasMouseUp({PointD}, MaxGestureHist)

SpecGesture == Init /\ [][NextGesture]_vars

\* The steps that push a snapshot derived from the current one.
EditPushes == {"rotate", "filter", "resizeApply", "cropApply", "canvasMouseUp"}

\* C32: an entry pushed by rotate, filter, resize, crop or a draw gesture
\* has at least as many strokes as the entry before it, and no step other
\* than the re-seed of an open changes the strokes of an entry that stays in
\* the history.
C32_DrawingsGrow ==
    [][/\ (lastOp'.name \in EditPushes /\ historyIndex' = historyIndex + 1
                                       /\ Len(history') >= 2) =>
            /\ historyIndex' = Len(history') - 1
            /\ Len(history'[Len(history')].drawings) >=
                   Len(history'[Len(history') - 1].drawings)
       /\ lastOp'.name # "open" =>
            \A k \in 1..Len(history) :
                k <= Len(history') =>
                    \/ history'[k].drawings = history[k].drawings
                    \/ k = Len(history') /\ k = historyIndex + 2]_vars

C32_Witness ==
    /\ lastOp.name = "canvasMouseUp"
    /\ Len(history) = 3
    /\ historyIndex = 2
    /\ history[2].mode = "resize"
    /\ history[1].drawings = <<>>
    /\ history[2].drawings = <<>>
    /\ Len(history[3].drawings) = 1
    /\ currentState = history[3]

\* One session with the resize tool in which the width typed is zero or
\* negative.
NextResizeSigned ==
    \/ DimensionsEffect
    \/ Open
    \/ ImageLoad
    \/ Undo
    \/ Redo
    \/ Reset(MaxResize)
    \/ SelectTool({"resize"})
    \/ ResizeWidthChange(SignedWidthInputs)
    \/ ToggleMaintainRatio
    \/ ResizeApply(MaxResize)

SpecResizeSigned == Init /\ [][NextResizeSigned]_vars

\* The snapshot has no dimensions, or a positive width and a positive height.
SizedOrUnsized(e) ==
    \/ e.width = <<>> /\ e.height = <<>>
    \/ /\ e.width # <<>> /\ e.height # <<>>
       /\ e.width[1] > 0 /\ e.height[1] > 0

\* C33: in the current state and in every entry of the history, width and
\* height are both absent or both positive integers.
C33_PositiveDimensions ==
    /\ SizedOrUnsized(currentState)
    /\ \A k \in 1..Len(history) : SizedOrUnsized(history[k])

\* C34: the text objects of the collection have pairwise distinct ids.
C34_DistinctIds ==
    \A i, j \in 1..Len(textObjects) :
        textObjects[i].id = textObjects[j].id => i = j

\* C35: a pointer-move of a gesture in free mode never fails; the point goes
\* to the last stroke of the live drawings, which is the stroke the
\* gesture's pointer-down opened (it starts at the gesture's start point) and
\* is not a stroke of the entry under the cursor.
C35_MoveExtendsOwnStroke ==
    [][(/\ lastOp'.name = "canvasMouseMove"
        /\ isDrawing /\ drawMode = "free" /\ activeTool = "draw") =>
          /\ ~crashed'
          /\ LET n == Len(currentState.drawings)
             IN  /\ n > 0
                 /\ currentState.drawings[n].mode = "free"
                 /\ currentState.drawings[n].points[1] = startPoint
                 /\ historyIndex < Len(history) =>
                        Len(history[historyIndex + 1].drawings) < n
                 /\ currentState'.drawings =
                        [currentState.drawings EXCEPT ![n].points =
                            Append(@, CanvasPoint(World, lastOp'.point))]]_vars

\* C36: a pointer-move of a crop drag leaves the drag session as it is and
\* gives the box that the same move gives when it is the first of the drag,
\* the box then being the snapshot taken at drag start: the moves made in
\* between leave no trace, so two sequences of moves that end at the same
\* position end with the same box.
C36_MovePathIndependent ==
    [][(lastOp'.name = "editorMouseMove" /\ dragSession # NoDrag) =>
          /\ dragSession' = dragSession
          /\ cropBox' = handleEditorMouseMove(
                            [World EXCEPT !.cropBox = dragSession.startBox],
                            lastOp'.point).cropBox]_vars

C36_Witness ==
    /\ lastOp.name = "editorMouseMove"
    /\ lastOp.point = PointL
    /\ dragSession # NoDrag
    /\ dragSession.type = "move"
    /\ dragSession.startBox.left = RInt(96)
    /\ dragSession.startBox.width = RInt(2)
    /\ cropBox.left = RInt(1)
    /\ cropBox.width = RInt(2)

\* C37: when the cleanup of a blur runs, every text object other than the
\* one that lost the focus stays in the collection as it is, and stays in
\* edit mode if it was being edited.
C37_CleanupSparesOthers ==
    [][lastOp'.name = "blurCleanup" =>
        \A i \in 1..Len(textObjects) :
            textObjects[i].id # lastOp'.timer.textObj.id =>
                /\ \E j \in 1..Len(textObjects') : textObjects'[j] = textObjects[i]
                /\ editingTextId = <<textObjects[i].id>> =>
                      editingTextId' = editingTextId]_vars

\* C38: while the editor is open and settled and no draw gesture is in
\* progress, the cursor points at an entry of the history and currentState
\* is that entry.
C38_CurrentIsCursorEntry ==
    (Live /\ ~isDrawing) =>
        /\ 0 <= historyIndex /\ historyIndex < Len(history)
        /\ currentState = history[historyIndex + 1]

\* C39: while the editor is open and settled, the displayed base image is
\* the imageSrc of the current state.
C39_ImageIsCurrentSrc ==
    Live => currentImage = currentState.imageSrc

\* A save whose Image is still loading while the editing goes on: rotations,
\* filters, undo, a stroke, a text object created and discarded.
NextPendingSave ==
    \/ DimensionsEffect
    \/ Open
    \/ ImageLoad
    \/ RotateButton(MaxSaveHist)
    \/ FilterButton(MaxSaveHist)
    \/ Undo
    \/ (Idle /\ DrawButton)
    \/ (Idle /\ CanvasMouseDown({PointA}, MaxStrokes))
    \/ CanvasMouseUp({PointD}, MaxSaveHist)
    \/ (Idle /\ SelectTool({"text"}))
    \/ (Idle /\ textObjects = <<>> /\ EditorMouseDown({PointE}))
    \/ TextKeyDown({"Escape"})
    \/ BlurTimerFires
    \/ (Idle /\ Save(MaxLayerSaves))
    \/ SaveImageLoaded

SpecPendingSave == Init /\ [][NextPendingSave]_vars

\* The steps of a save: the call of handleSave and the end of its decode.
SaveSteps == {"save", "saveImageLoaded", "saveImageFailed"}

\* C40: a save keeps the displayed image, the current state and the text
\* objects of the moment it is invoked; no later edit changes what a pending
\* save keeps; the artifact handed to onSave is the composite of what that
\* save kept; and neither the call of save nor the end of its decode
\* changes the history, the cursor, the current state or the text objects.
C40_SaveIsSnapshot ==
    [][/\ (lastOp'.name = "save" /\ Len(saveDecodes') = Len(saveDecodes) + 1) =>
            saveDecodes' = Append(saveDecodes,
                [save |-> saveCount + 1, image |-> currentImage,
                 currentState |-> currentState, textObjects |-> textObjects])
       /\ lastOp'.name \notin SaveSteps => saveDecodes' = saveDecodes
       /\ lastOp'.name = "saveImageLoaded" =>
            \E k \in 1..Len(saveDecodes) :
                onSaveCalls'[Len(onSaveCalls')].artifact = Composite(saveDecodes[k])
       /\ lastOp'.name \in SaveSteps =>
            UNCHANGED <<history, historyIndex, currentState, textObjects>>]_vars

C40_Witness ==
    /\ lastOp.name = "saveImageLoaded"
    /\ Len(onSaveCalls) = 1
    /\ onSaveCalls[1].artifact.rotation = 0
    /\ onSaveCalls[1].artifact.drawings = <<>>
    /\ Len(onSaveCalls[1].artifact.texts) = 1
    /\ currentState.rotation = 0
    /\ Len(currentState.drawings) = 1
    /\ textObjects = <<>>

====
